---------------------------- MODULE Spec2Model ----------------------------
(***************************************************************************)
(* A model of MockJiraClient (src/src/jira_assistant_skills_lib/           *)
(* mock_responses.py): the in-memory substitute for the Jira client.       *)
(*                                                                         *)
(* Strings the code takes apart (issue keys, JQL queries, time strings)    *)
(* are sequences of one-character strings, so that str.upper, str.lower,   *)
(* startswith, the `in` substring test and str.replace are computed as     *)
(* Python computes them.  Strings the code only compares for equality      *)
(* (status names, display names, account ids) are TLA+ strings.            *)
(*                                                                         *)
(* Left out of an issue: "self", "created" and "updated" (constant text    *)
(* no method reads).  The ADF descriptions are shortened to their text.    *)
(***************************************************************************)
EXTENDS Integers, Sequences, FiniteSets, TLC

(***************************************************************************)
(* Bounds of the model.  Each specification below starts with its own      *)
(* budget of client calls.                                                 *)
(***************************************************************************)
MaxCalls == 3

MaxCallsKeyed == 2

MaxCallsStore == 3

MaxCallsSearch == 2

MaxBulkLen == 3

MaxCallsBulk == 3

MaxCallsLinks == 3

MaxCallsTime == 4

MaxCallsSprint == 3

MaxCallsBacklog == 46

MaxCallsClone == 3

MaxCallsQueue == 3

MaxCallsRoles == 3

MaxCallsWatch == 3

MaxCallsParse == 1

MaxCallsComments == 4

VARIABLES
    issues,               \* self._issues: insertion-ordered dict, as a sequence of issues
    next_issue_id,        \* self._next_issue_id
    comments,             \* self._comments: issue key -> list of comments
    worklogs,             \* self._worklogs: issue key -> list of worklogs
    project_role_actors,  \* self._project_role_actors: <<project, role id>> -> list of actors
    sprint_issues,        \* self._sprint_issues: sprint id -> list of issue keys
    watchers,             \* self._watchers: issue key -> list of account ids
    issue_links,          \* self._issue_links: issue key -> list of links
    next_link_id,         \* self._next_link_id
    last,                 \* the last call: its name, key argument, error raised and return value
    deleted,              \* history: the keys delete_issue has removed
    bulk,                 \* the bulk transition in progress (bulk_cmds._bulk_transition_impl)
    budget                \* calls the run may still make

data == <<issues, next_issue_id, comments, worklogs, project_role_actors,
          sprint_issues, watchers, issue_links, next_link_id>>

vars == <<issues, next_issue_id, comments, worklogs, project_role_actors,
          sprint_issues, watchers, issue_links, next_link_id, last, deleted, bulk, budget>>

-----------------------------------------------------------------------------
(***************************************************************************)
(* Python strings as sequences of characters.                              *)
(***************************************************************************)
LowerLetters == <<"a", "b", "c", "d", "e", "f", "g", "h", "i", "j", "k", "l", "m",
                  "n", "o", "p", "q", "r", "s", "t", "u", "v", "w", "x", "y", "z">>

UpperLetters == <<"A", "B", "C", "D", "E", "F", "G", "H", "I", "J", "K", "L", "M",
                  "N", "O", "P", "Q", "R", "S", "T", "U", "V", "W", "X", "Y", "Z">>

DigitChars == <<"0", "1", "2", "3", "4", "5", "6", "7", "8", "9">>

UpperChar(c) ==
    IF \E i \in 1..26 : LowerLetters[i] = c
    THEN UpperLetters[CHOOSE i \in 1..26 : LowerLetters[i] = c]
    ELSE c

LowerChar(c) ==
    IF \E i \in 1..26 : UpperLetters[i] = c
    THEN LowerLetters[CHOOSE i \in 1..26 : UpperLetters[i] = c]
    ELSE c

\* str.upper()
Upper(s) == [i \in 1..Len(s) |-> UpperChar(s[i])]

\* str.lower()
Lower(s) == [i \in 1..Len(s) |-> LowerChar(s[i])]

\* s[i:] (0-based i)
DropFirst(s, n) == IF n >= Len(s) THEN <<>> ELSE SubSeq(s, n + 1, Len(s))

\* s.startswith(p)
StartsWith(s, p) == Len(s) >= Len(p) /\ \A j \in 1..Len(p) : s[j] = p[j]

\* sub in s
Contains(s, sub) == \E i \in 0..(Len(s) - Len(sub)) : \A j \in 1..Len(sub) : s[i + j] = sub[j]

\* s.replace(old, new): the non-overlapping occurrences, left to right
RECURSIVE Replace(_, _, _)
Replace(s, old, new) ==
    IF Len(s) < Len(old) \/ Len(old) = 0 THEN s
    ELSE IF StartsWith(s, old) THEN new \o Replace(DropFirst(s, Len(old)), old, new)
    ELSE <<s[1]>> \o Replace(Tail(s), old, new)

\* str(n) for n >= 0
RECURSIVE Digits(_)
Digits(n) == IF n < 10 THEN <<DigitChars[n + 1]>> ELSE Digits(n \div 10) \o <<DigitChars[(n % 10) + 1]>>

IsDigit(c) == \E i \in 1..10 : DigitChars[i] = c

DigitValue(c) == (CHOOSE i \in 1..10 : DigitChars[i] = c) - 1

\* Python's None, where the other values are dicts
None == [isNone |-> TRUE]

\* Python's None, where the other values are strings kept as character sequences
\* (no character sequence holds a string of more than one character)
NoneText == <<"None">>

\* Python's None, where the other values are strings kept whole
NoneStr == "<None>"

\* dict.get(name, default)
Get(d, name, default) == IF name \in DOMAIN d THEN d[name] ELSE default

\* d[k] = v on a dict
Put(d, k, v) == [x \in DOMAIN d \cup {k} |-> IF x = k THEN v ELSE d[x]]

EmptyDict == [x \in {} |-> None]

InSeq(x, s) == \E i \in 1..Len(s) : s[i] = x

\* s[a:b] for 0 <= a, 0 <= b
Slice(s, a, b) ==
    LET hi == IF b > Len(s) THEN Len(s) ELSE b
    IN  IF a >= hi THEN <<>> ELSE SubSeq(s, a + 1, hi)

-----------------------------------------------------------------------------
(***************************************************************************)
(* Class constants.                                                        *)
(***************************************************************************)
DEMO == <<"D", "E", "M", "O">>

DEMOSD == <<"D", "E", "M", "O", "S", "D">>

Dash == <<"-">>

\* f"{project_key}-{n}"
KeyOf(project_key, n) == project_key \o Dash \o Digits(n)

USERS ==
    [abc123 |-> [accountId |-> "abc123", displayName |-> "Jason Krueger",
                 emailAddress |-> "jasonkrue@gmail.com", active |-> TRUE],
     def456 |-> [accountId |-> "def456", displayName |-> "Jane Manager",
                 emailAddress |-> "jane@example.com", active |-> TRUE],
     ghi789 |-> [accountId |-> "ghi789", displayName |-> "Admin User",
                 emailAddress |-> "admin@example.com", active |-> TRUE]]

TRANSITIONS ==
    << [id |-> "11", name |-> "To Do", to |-> [name |-> "To Do", id |-> "10000"]],
       [id |-> "21", name |-> "In Progress", to |-> [name |-> "In Progress", id |-> "10001"]],
       [id |-> "31", name |-> "Done", to |-> [name |-> "Done", id |-> "10002"]] >>

LINK_TYPES ==
    << [id |-> "10000", name |-> "Blocks", inward |-> "is blocked by", outward |-> "blocks"],
       [id |-> "10001", name |-> "Cloners", inward |-> "is cloned by", outward |-> "clones"],
       [id |-> "10002", name |-> "Duplicate", inward |-> "is duplicated by", outward |-> "duplicates"],
       [id |-> "10003", name |-> "Relates", inward |-> "relates to", outward |-> "relates to"] >>

\* str.lower() of the names the code lower-cases before comparing them
LowerName(s) ==
    CASE s = "Jason Krueger" -> "jason krueger"
      [] s = "Jane Manager" -> "jane manager"
      [] s = "Admin User" -> "admin user"
      [] s = "Unknown User" -> "unknown user"
      [] s = "Blocks" -> "blocks"
      [] s = "Cloners" -> "cloners"
      [] s = "Duplicate" -> "duplicate"
      [] s = "Relates" -> "relates"
      [] s = "BLOCKS" -> "blocks"
      [] OTHER -> s

-----------------------------------------------------------------------------
(***************************************************************************)
(* _init_issues: the seed data.                                            *)
(***************************************************************************)
JasonAssignee ==
    [accountId |-> "abc123", displayName |-> "Jason Krueger", emailAddress |-> "jasonkrue@gmail.com"]

JaneAssignee ==
    [accountId |-> "def456", displayName |-> "Jane Manager", emailAddress |-> "jane@example.com"]

JasonReporter == [accountId |-> "abc123", displayName |-> "Jason Krueger"]

ZeroTimetracking ==
    [originalEstimate |-> <<"0", "m">>, remainingEstimate |-> <<"0", "m">>,
     originalEstimateSeconds |-> 0, remainingEstimateSeconds |-> 0]

DemoProject == [key |-> DEMO, name |-> "Demo Project", id |-> "10000"]

DemoSdProject == [key |-> DEMOSD, name |-> "Demo Service Desk", id |-> "10001"]

SeedDemo(n, summary, description, itype, itypeId, prio, prioId, assignee, reporter, labels) ==
    [key |-> KeyOf(DEMO, n),
     id |-> Digits(10000 + n),
     fields |->
        [summary |-> summary,
         description |-> description,
         issuetype |-> [name |-> itype, id |-> itypeId],
         status |-> [name |-> "To Do", id |-> "10000"],
         priority |-> [name |-> prio, id |-> prioId],
         assignee |-> assignee,
         reporter |-> reporter,
         project |-> DemoProject,
         labels |-> labels,
         timetracking |-> ZeroTimetracking]]

SeedDemoSd(n, summary, description, itype, itypeId, prio, prioId, reporter) ==
    [key |-> KeyOf(DEMOSD, n),
     id |-> Digits(20000 + n),
     fields |->
        [summary |-> summary,
         description |-> [type |-> "doc", text |-> description],
         issuetype |-> [name |-> itype, id |-> itypeId],
         status |-> [name |-> "Waiting for support", id |-> "10100"],
         priority |-> [name |-> prio, id |-> prioId],
         assignee |-> None,
         reporter |-> reporter,
         project |-> DemoSdProject,
         labels |-> <<"demo">>],
     requestTypeId |-> Digits(n),
     serviceDeskId |-> "1",
     currentStatus |-> [status |-> "Waiting for support", statusCategory |-> "new"]]

WithField(issue, name, value) == [issue EXCEPT !.fields = Put(issue.fields, name, value)]

init_issues ==
    << SeedDemo(84, "Product Launch", [type |-> "doc", text |-> "Epic for product launch activities"],
                "Epic", "10000", "High", "2", JasonAssignee, JasonReporter, <<"demo">>),
       WithField(WithField(
           SeedDemo(85, "User Authentication", None,
                    "Story", "10001", "High", "2", JasonAssignee, JasonReporter, <<"demo">>),
           "customfield_10014", KeyOf(DEMO, 84)), "customfield_10016", 8),
       WithField(
           SeedDemo(86, "Login fails on mobile Safari", [type |-> "doc", text |-> "Login button"],
                    "Bug", "10002", "High", "2", JaneAssignee, JasonReporter,
                    <<"demo", "mobile", "safari">>),
           "components", << [id |-> "10000", name |-> "Mobile"],
                            [id |-> "10001", name |-> "Authentication"] >>),
       SeedDemo(87, "Update API documentation", None,
                "Task", "10003", "Medium", "3", JaneAssignee, JasonReporter, <<"demo">>),
       SeedDemo(88, "Dashboard redesign", None,
                "Story", "10001", "Medium", "3", JasonAssignee, JasonReporter, <<"demo">>),
       SeedDemo(89, "Performance optimization", None,
                "Task", "10003", "Medium", "3", JasonAssignee, JasonReporter, <<"demo">>),
       SeedDemo(90, "Add dark mode support", None,
                "Story", "10001", "Low", "4", JasonAssignee, JasonReporter, <<"demo">>),
       SeedDemo(91, "Search pagination bug", None,
                "Bug", "10002", "Medium", "3", JasonAssignee, JaneAssignee, <<"demo">>),
       SeedDemoSd(1, "Can't connect to VPN", "VPN connection timeout",
                  "IT help", "10100", "Medium", "3", JasonAssignee),
       SeedDemoSd(2, "New laptop for development", "Need a new development laptop",
                  "Computer support", "10101", "Medium", "3", JasonAssignee),
       SeedDemoSd(3, "New hire starting Monday - Alex Chen", "Set up accounts",
                  "New employee", "10102", "High", "2", JaneAssignee),
       SeedDemoSd(4, "Conference travel to AWS re:Invent", "Requesting approval for travel",
                  "Travel request", "10103", "Medium", "3", JasonAssignee),
       SeedDemoSd(5, "Purchase ergonomic keyboard", "Ergonomic keyboard",
                  "Purchase over $100", "10104", "Low", "4", JasonAssignee) >>

\* _init_sprints: the one sprint; no method of the mock changes the list
BOARDS ==
    << [id |-> 1, name |-> "DEMO Board", type |-> "scrum",
        location |-> [projectKey |-> DEMO, projectName |-> "Demo Project",
                      projectId |-> "10000"]] >>

sprints ==
    << [id |-> 1, name |-> "Sprint 1", state |-> "active", originBoardId |-> 1,
        goal |-> "Complete MVP features"] >>

-----------------------------------------------------------------------------
(***************************************************************************)
(* The issue store and the bookkeeping every call shares.                  *)
(***************************************************************************)
IssueKeys == {issues[i].key : i \in 1..Len(issues)}

\* issue_key in self._issues
HasIssue(issue_key) == issue_key \in IssueKeys

IssueIndex(issue_key) == CHOOSE i \in 1..Len(issues) : issues[i].key = issue_key

\* self._issues[issue_key]
Issue(issue_key) == issues[IssueIndex(issue_key)]

\* self._issues[issue_key] = issue: in place for a key the dict holds, else at the end
StoreIssue(store, issue) ==
    IF \E i \in 1..Len(store) : store[i].key = issue.key
    THEN [i \in 1..Len(store) |-> IF store[i].key = issue.key THEN issue ELSE store[i]]
    ELSE Append(store, issue)

\* self._issues[issue_key]["fields"][name] = value
SetField(store, issue_key, name, value) ==
    [i \in 1..Len(store) |->
        IF store[i].key = issue_key THEN WithField(store[i], name, value) ELSE store[i]]

\* The variables a call leaves alone: all but those named in changed
Others(changed) ==
    /\ IF "issues" \in changed THEN TRUE ELSE UNCHANGED issues
    /\ IF "next_issue_id" \in changed THEN TRUE ELSE UNCHANGED next_issue_id
    /\ IF "comments" \in changed THEN TRUE ELSE UNCHANGED comments
    /\ IF "worklogs" \in changed THEN TRUE ELSE UNCHANGED worklogs
    /\ IF "project_role_actors" \in changed THEN TRUE ELSE UNCHANGED project_role_actors
    /\ IF "sprint_issues" \in changed THEN TRUE ELSE UNCHANGED sprint_issues
    /\ IF "watchers" \in changed THEN TRUE ELSE UNCHANGED watchers
    /\ IF "issue_links" \in changed THEN TRUE ELSE UNCHANGED issue_links
    /\ IF "next_link_id" \in changed THEN TRUE ELSE UNCHANGED next_link_id
    /\ IF "deleted" \in changed THEN TRUE ELSE UNCHANGED deleted

\* A client call is made outside a bulk run and uses up one call of the budget
Call ==
    /\ budget > 0
    /\ bulk.pc = "idle"
    /\ budget' = budget - 1
    /\ UNCHANGED bulk

\* The call returns ret
Return(op, key, ret) == last' = [op |-> op, key |-> key, err |-> "none", ret |-> ret]

\* The call raises err before it has changed anything
Raise(op, key, err) ==
    /\ last' = [op |-> op, key |-> key, err |-> err, ret |-> None]
    /\ Others({})

NotFound(op, key) == Raise(op, key, "NotFoundError")

-----------------------------------------------------------------------------
(***************************************************************************)
(* Issue operations.                                                       *)
(***************************************************************************)
get_issue(issue_key) ==
    /\ Call
    /\ IF ~HasIssue(issue_key) THEN NotFound("get_issue", issue_key)
       ELSE Return("get_issue", issue_key, Issue(issue_key)) /\ Others({})

\* isinstance(v, dict), for the values a fields dict holds here: a dict or None
IsDict(v) == v # None

priority_id_map ==
    [Highest |-> "1", High |-> "2", Medium |-> "3", Low |-> "4", Lowest |-> "5"]

\* The issue create_issue builds from fields once the counter has advanced to n
NewIssue(fields, n) ==
    LET project_key == Get(Get(fields, "project", EmptyDict), "key", DEMO)
        issue_type == Get(fields, "issuetype", EmptyDict)
        type_name == IF IsDict(issue_type) THEN Get(issue_type, "name", "Task") ELSE "Task"
        priority == Get(fields, "priority", EmptyDict)
        priority_name == IF IsDict(priority) THEN Get(priority, "name", "Medium") ELSE "Medium"
        given_id == IF IsDict(priority) THEN Get(priority, "id", "3") ELSE "3"
        priority_id == IF priority_name \in DOMAIN priority_id_map
                       THEN priority_id_map[priority_name] ELSE given_id
    IN  [key |-> KeyOf(project_key, n),
         id |-> Digits(10000 + n),
         fields |->
            [summary |-> Get(fields, "summary", "New Issue"),
             description |-> Get(fields, "description", None),
             issuetype |-> [name |-> type_name, id |-> "10000"],
             status |-> [name |-> "To Do", id |-> "10000"],
             priority |-> [name |-> priority_name, id |-> priority_id],
             assignee |-> Get(fields, "assignee", None),
             reporter |-> USERS["abc123"],
             project |-> [key |-> project_key, name |-> "Demo Project", id |-> "10000"],
             labels |-> Get(fields, "labels", <<>>),
             timetracking |-> ZeroTimetracking]]

create_issue(fields) ==
    /\ Call
    /\ LET new_issue == NewIssue(fields, next_issue_id + 1)
       IN  /\ next_issue_id' = next_issue_id + 1
           /\ issues' = StoreIssue(issues, new_issue)
           /\ Return("create_issue", new_issue.key, [key |-> new_issue.key, id |-> new_issue.id])
           /\ Others({"issues", "next_issue_id"})

\* update_issue storing the given fields as the whole "fields" dict of the issue
UpdatedIssueReplaced(issue, fields) == [issue EXCEPT !.fields = fields]

\* for key, value in fields.items(): self._issues[issue_key]["fields"][key] = value
UpdatedIssue(issue, fields) ==
    [issue EXCEPT !.fields =
        [x \in DOMAIN issue.fields \cup DOMAIN fields |->
            IF x \in DOMAIN fields THEN fields[x] ELSE issue.fields[x]]]

update_issue(issue_key, fields) ==
    /\ Call
    /\ IF ~HasIssue(issue_key) THEN NotFound("update_issue", issue_key)
       ELSE /\ issues' = IF fields # None /\ DOMAIN fields # {}
                         THEN StoreIssue(issues, UpdatedIssue(Issue(issue_key), fields))
                         ELSE issues
            /\ last' = [op |-> "update_issue", key |-> issue_key, err |-> "none",
                        ret |-> EmptyDict, fields |-> fields]
            /\ Others({"issues"})

\* delete_issue without its del statement: the dict keeps the issue
WithIssueKept(store, issue_key) == store

\* del self._issues[issue_key]
WithoutIssue(store, issue_key) == SelectSeq(store, LAMBDA i : i.key # issue_key)

delete_issue(issue_key) ==
    /\ Call
    /\ IF ~HasIssue(issue_key) THEN NotFound("delete_issue", issue_key)
       ELSE /\ issues' = WithoutIssue(issues, issue_key)
            /\ deleted' = deleted \cup {issue_key}
            /\ Return("delete_issue", issue_key, None)
            /\ Others({"issues", "deleted"})

\* The assignee assign_issue stores for account_id
AssigneeFor(account_id) ==
    IF account_id = NoneStr THEN None
    ELSE IF account_id \in DOMAIN USERS THEN USERS[account_id]
    ELSE [accountId |-> account_id, displayName |-> "Unknown User"]

assign_issue(issue_key, account_id) ==
    /\ Call
    /\ IF ~HasIssue(issue_key) THEN NotFound("assign_issue", issue_key)
       ELSE /\ issues' = SetField(issues, issue_key, "assignee", AssigneeFor(account_id))
            /\ Return("assign_issue", issue_key, None)
            /\ Others({"issues"})

get_transitions(issue_key) ==
    /\ Call
    /\ IF ~HasIssue(issue_key) THEN NotFound("get_transitions", issue_key)
       ELSE Return("get_transitions", issue_key, TRANSITIONS) /\ Others({})

\* The scan of transition_issue with a fall-back: an id the table does not list
\* takes the first row
TransitionedOrFirst(store, issue_key, transition_id) ==
    IF \E i \in 1..Len(TRANSITIONS) : TRANSITIONS[i].id = transition_id
    THEN SetField(store, issue_key, "status",
                  TRANSITIONS[CHOOSE i \in 1..Len(TRANSITIONS) : TRANSITIONS[i].id = transition_id].to)
    ELSE SetField(store, issue_key, "status", TRANSITIONS[1].to)

\* for t in self.TRANSITIONS: if t["id"] == transition_id: ...; break
Transitioned(store, issue_key, transition_id) ==
    IF \E i \in 1..Len(TRANSITIONS) : TRANSITIONS[i].id = transition_id
    THEN LET first == CHOOSE i \in 1..Len(TRANSITIONS) :
                          /\ TRANSITIONS[i].id = transition_id
                          /\ \A j \in 1..(i - 1) : TRANSITIONS[j].id # transition_id
         IN  SetField(store, issue_key, "status", TRANSITIONS[first].to)
    ELSE store

transition_issue(issue_key, transition_id) ==
    /\ Call
    /\ IF ~HasIssue(issue_key) THEN NotFound("transition_issue", issue_key)
       ELSE /\ issues' = Transitioned(issues, issue_key, transition_id)
            /\ last' = [op |-> "transition_issue", key |-> issue_key, err |-> "none",
                        ret |-> None, transition_id |-> transition_id]
            /\ Others({"issues"})

-----------------------------------------------------------------------------
(***************************************************************************)
(* Comments.                                                               *)
(***************************************************************************)
\* The comment add_comment appends to the list it finds
NewComment(existing, body, visibility) ==
    LET comment == [id |-> Digits(Len(existing) + 1), body |-> body, author |-> USERS["abc123"]]
    IN  IF visibility # None THEN Put(comment, "visibility", visibility) ELSE comment

\* add_comment without its "issue_key not in self._issues" check: the comment is
\* stored under whatever key it is given
add_comment_unguarded(issue_key, body, visibility) ==
    /\ Call
    /\ LET existing == Get(comments, issue_key, <<>>)
           comment == NewComment(existing, body, visibility)
       IN  /\ comments' = Put(comments, issue_key, Append(existing, comment))
           /\ Return("add_comment", issue_key, comment)
           /\ Others({"comments"})

add_comment(issue_key, body, visibility) ==
    /\ Call
    /\ IF ~HasIssue(issue_key) THEN NotFound("add_comment", issue_key)
       ELSE LET existing == Get(comments, issue_key, <<>>)
                comment == NewComment(existing, body, visibility)
            IN  /\ comments' = Put(comments, issue_key, Append(existing, comment))
                /\ Return("add_comment", issue_key, comment)
                /\ Others({"comments"})

get_comments(issue_key, start_at, max_results) ==
    /\ Call
    /\ IF ~HasIssue(issue_key) THEN NotFound("get_comments", issue_key)
       ELSE LET found == Get(comments, issue_key, <<>>)
            IN  /\ Return("get_comments", issue_key,
                          [startAt |-> start_at, maxResults |-> max_results, total |-> Len(found),
                           comments |-> Slice(found, start_at, start_at + max_results)])
                /\ Others({})

\* The first entry of a list whose id is the one asked for
HasId(list, id) == \E i \in 1..Len(list) : list[i].id = id

FirstWithId(list, id) ==
    CHOOSE i \in 1..Len(list) : list[i].id = id /\ \A j \in 1..(i - 1) : list[j].id # id

get_comment(issue_key, comment_id) ==
    /\ Call
    /\ IF ~HasIssue(issue_key) THEN NotFound("get_comment", issue_key)
       ELSE LET found == Get(comments, issue_key, <<>>)
            IN  IF HasId(found, comment_id)
                THEN Return("get_comment", issue_key, found[FirstWithId(found, comment_id)])
                     /\ Others({})
                ELSE NotFound("get_comment", issue_key)

update_comment(issue_key, comment_id, body) ==
    /\ Call
    /\ IF ~HasIssue(issue_key) THEN NotFound("update_comment", issue_key)
       ELSE LET found == Get(comments, issue_key, <<>>)
            IN  IF HasId(found, comment_id)
                THEN LET i == FirstWithId(found, comment_id)
                         comment == [found[i] EXCEPT !.body = body]
                     IN  /\ comments' = [comments EXCEPT ![issue_key] = [found EXCEPT ![i] = comment]]
                         /\ Return("update_comment", issue_key, comment)
                         /\ Others({"comments"})
                ELSE NotFound("update_comment", issue_key)

\* [c for c in list if c["id"] != id]
WithoutId(list, id) == SelectSeq(list, LAMBDA c : c.id # id)

delete_comment(issue_key, comment_id) ==
    /\ Call
    /\ IF ~HasIssue(issue_key) THEN NotFound("delete_comment", issue_key)
       ELSE /\ comments' = Put(comments, issue_key,
                               WithoutId(Get(comments, issue_key, <<>>), comment_id))
            /\ Return("delete_comment", issue_key, None)
            /\ Others({"comments"})

\* A service-desk comment: its id is the length of the issue's list plus one
add_request_comment(issue_key, body, public) ==
    /\ Call
    /\ IF ~HasIssue(issue_key) THEN NotFound("add_request_comment", issue_key)
       ELSE LET existing == Get(comments, issue_key, <<>>)
                comment == [id |-> Digits(Len(existing) + 1), body |-> body, public |-> public,
                            author |-> USERS["abc123"],
                            created |-> [iso8601 |-> "2025-01-08T10:00:00+0000"]]
            IN  /\ comments' = Put(comments, issue_key, Append(existing, comment))
                /\ Return("add_request_comment", issue_key, comment)
                /\ Others({"comments"})

-----------------------------------------------------------------------------
(***************************************************************************)
(* Project roles.                                                          *)
(***************************************************************************)
PROJECT_ROLES ==
    << [id |-> 10002, name |-> "Administrators", description |-> "Project administrators"],
       [id |-> 10001, name |-> "Developers", description |-> "A project role for developers"],
       [id |-> 10000, name |-> "Users", description |-> "A project role for users"] >>

\* The actor a role has when no actor is stored for it
DefaultActor ==
    [id |-> 10100, type |-> "atlassian-user-role-actor", displayName |-> "Jason Krueger",
     actorUser |-> [accountId |-> "abc123", emailAddress |-> "jasonkrue@gmail.com"]]

\* What get_project_role_actors returns or raises when the stored actors are stored
RoleActors(stored, project_key, role_id) ==
    LET found == SelectSeq(PROJECT_ROLES, LAMBDA r : r.id = role_id)
        role == found[1]
        actors == Get(stored, <<project_key, role_id>>, <<>>)
    IN  IF found = <<>> THEN [err |-> "NotFoundError", ret |-> None]
        ELSE [err |-> "none",
              ret |-> [id |-> role_id, name |-> role.name,
                       description |-> Get(role, "description", ""),
                       actors |-> IF role.name = "Administrators" /\ actors = <<>>
                                  THEN <<DefaultActor>> ELSE actors]]

get_project_role_actors(project_key, role_id) ==
    /\ Call
    /\ LET done == RoleActors(project_role_actors, project_key, role_id)
       IN  last' = [op |-> "get_project_role_actors", key |-> project_key, err |-> done.err,
                    ret |-> done.ret, role_id |-> role_id]
    /\ Others({})

\* The actors add_user_to_project_role leaves stored: the list is made for any
\* role id, and the account joins it unless an actor of the list carries it
ActorAdded(stored, project_key, role_id, account_id) ==
    LET key == <<project_key, role_id>>
        actors == Get(stored, key, <<>>)
        user == Get(USERS, account_id, [displayName |-> "Unknown", emailAddress |-> ""])
    IN  IF \E i \in 1..Len(actors) :
               Get(Get(actors[i], "actorUser", EmptyDict), "accountId", NoneStr) = account_id
        THEN Put(stored, key, actors)
        ELSE Put(stored, key,
                 Append(actors,
                        [id |-> 10000 + Len(actors), type |-> "atlassian-user-role-actor",
                         displayName |-> Get(user, "displayName", "Unknown"),
                         actorUser |-> [accountId |-> account_id,
                                        emailAddress |-> Get(user, "emailAddress", "")]]))

\* The role is looked up only by the closing get_project_role_actors, after the
\* actor was stored
add_user_to_project_role(project_key, role_id, account_id) ==
    /\ Call
    /\ LET stored == ActorAdded(project_role_actors, project_key, role_id, account_id)
           done == RoleActors(stored, project_key, role_id)
       IN  /\ project_role_actors' = stored
           /\ last' = [op |-> "add_user_to_project_role", key |-> project_key, err |-> done.err,
                       ret |-> done.ret, role_id |-> role_id]
    /\ Others({"project_role_actors"})

remove_user_from_project_role(project_key, role_id, account_id) ==
    /\ Call
    /\ LET key == <<project_key, role_id>>
       IN  project_role_actors' =
               IF key \in DOMAIN project_role_actors
               THEN [project_role_actors EXCEPT ![key] =
                        SelectSeq(@, LAMBDA a : Get(Get(a, "actorUser", EmptyDict),
                                                    "accountId", NoneStr) # account_id)]
               ELSE project_role_actors
    /\ last' = [op |-> "remove_user_from_project_role", key |-> project_key, err |-> "none",
                ret |-> None, role_id |-> role_id]
    /\ Others({"project_role_actors"})

-----------------------------------------------------------------------------
(***************************************************************************)
(* Watchers.                                                               *)
(***************************************************************************)
get_current_user_id == "abc123"

get_watchers(issue_key) ==
    /\ Call
    /\ IF ~HasIssue(issue_key) THEN NotFound("get_watchers", issue_key)
       ELSE LET watcher_ids == Get(watchers, issue_key, <<>>)
                known == SelectSeq(watcher_ids, LAMBDA uid : uid \in DOMAIN USERS)
                found == [i \in 1..Len(known) |-> USERS[known[i]]]
            IN  /\ Return("get_watchers", issue_key,
                          [isWatching |-> InSeq(get_current_user_id, watcher_ids),
                           watchCount |-> Len(found), watchers |-> found])
                /\ Others({})

\* add_watcher appending the account whether or not the list holds it
add_watcher_appending(issue_key, account_id) ==
    /\ Call
    /\ IF ~HasIssue(issue_key) THEN NotFound("add_watcher", issue_key)
       ELSE /\ watchers' = Put(watchers, issue_key,
                               Append(Get(watchers, issue_key, <<>>), account_id))
            /\ last' = [op |-> "add_watcher", key |-> issue_key, err |-> "none",
                        ret |-> None, account_id |-> account_id]
            /\ Others({"watchers"})

add_watcher(issue_key, account_id) ==
    /\ Call
    /\ IF ~HasIssue(issue_key) THEN NotFound("add_watcher", issue_key)
       ELSE LET existing == Get(watchers, issue_key, <<>>)
            IN  /\ watchers' = Put(watchers, issue_key,
                                   IF InSeq(account_id, existing) THEN existing
                                   ELSE Append(existing, account_id))
                /\ last' = [op |-> "add_watcher", key |-> issue_key, err |-> "none",
                            ret |-> None, account_id |-> account_id]
                /\ Others({"watchers"})

\* list.remove(x): the first occurrence
RemoveFirst(list, x) ==
    LET i == CHOOSE i \in 1..Len(list) : list[i] = x /\ \A j \in 1..(i - 1) : list[j] # x
    IN  SubSeq(list, 1, i - 1) \o SubSeq(list, i + 1, Len(list))

remove_watcher(issue_key, account_id) ==
    /\ Call
    /\ IF ~HasIssue(issue_key) THEN NotFound("remove_watcher", issue_key)
       ELSE /\ watchers' = IF issue_key \in DOMAIN watchers /\ InSeq(account_id, watchers[issue_key])
                           THEN [watchers EXCEPT ![issue_key] = RemoveFirst(@, account_id)]
                           ELSE watchers
            /\ last' = [op |-> "remove_watcher", key |-> issue_key, err |-> "none",
                        ret |-> None, account_id |-> account_id]
            /\ Others({"watchers"})

-----------------------------------------------------------------------------
(***************************************************************************)
(* Time strings.                                                           *)
(***************************************************************************)
\* int(digits)
RECURSIVE ToInt(_)
ToInt(digits) ==
    IF digits = <<>> THEN 0
    ELSE 10 * ToInt(SubSeq(digits, 1, Len(digits) - 1)) + DigitValue(digits[Len(digits)])

\* re.search(r'(\d+)<unit>', s): where the unit letter of the leftmost match stands, 0
\* when there is no match.  The leftmost match starts the first run of digits that
\* the unit letter follows, and \d+ takes the whole run.
UnitAt(s, unit) ==
    LET hits == {j \in 2..Len(s) : s[j] = unit /\ IsDigit(s[j - 1])}
    IN  IF hits = {} THEN 0 ELSE CHOOSE j \in hits : \A h \in hits : j <= h

\* int(match.group(1)), 0 when there is no match
UnitCount(s, unit) ==
    LET j == UnitAt(s, unit)
        start == CHOOSE i \in 1..(j - 1) :
                     /\ \A x \in i..(j - 1) : IsDigit(s[x])
                     /\ (i = 1 \/ ~IsDigit(s[i - 1]))
    IN  IF j = 0 THEN 0 ELSE ToInt(SubSeq(s, start, j - 1))

\* _parse_time_to_seconds counting calendar time: 24 hours a day, 7 days a week
ParseTimeToSecondsCalendar(time_str) ==
    IF time_str = <<>> THEN 0
    ELSE UnitCount(time_str, "w") * 7 * 24 * 3600
         + UnitCount(time_str, "d") * 24 * 3600
         + UnitCount(time_str, "h") * 3600
         + UnitCount(time_str, "m") * 60

\* _parse_time_to_seconds
ParseTimeToSeconds(time_str) ==
    IF time_str = <<>> THEN 0
    ELSE UnitCount(time_str, "w") * 5 * 8 * 3600
         + UnitCount(time_str, "d") * 8 * 3600
         + UnitCount(time_str, "h") * 3600
         + UnitCount(time_str, "m") * 60

\* _seconds_to_time_str
SecondsToTimeStr(seconds) ==
    LET hours == seconds \div 3600
        minutes == (seconds % 3600) \div 60
    IN  IF seconds = 0 THEN <<"0", "m">>
        ELSE IF hours # 0 /\ minutes # 0 THEN Digits(hours) \o <<"h", " ">> \o Digits(minutes) \o <<"m">>
        ELSE IF hours # 0 THEN Digits(hours) \o <<"h">>
        ELSE Digits(minutes) \o <<"m">>

-----------------------------------------------------------------------------
(***************************************************************************)
(* Worklogs and time tracking.                                             *)
(***************************************************************************)
DefaultStarted == "2025-01-08T10:00:00.000+0000"

NewWorklog(existing, time_spent, started, comment) ==
    [id |-> Digits(Len(existing) + 1),
     timeSpent |-> time_spent,
     timeSpentSeconds |-> ParseTimeToSeconds(time_spent),
     started |-> IF started = NoneStr \/ started = "" THEN DefaultStarted ELSE started,
     comment |-> comment,
     author |-> USERS["abc123"]]

add_worklog(issue_key, time_spent, started, comment) ==
    /\ Call
    /\ IF ~HasIssue(issue_key) THEN NotFound("add_worklog", issue_key)
       ELSE LET existing == Get(worklogs, issue_key, <<>>)
                worklog == NewWorklog(existing, time_spent, started, comment)
            IN  /\ worklogs' = Put(worklogs, issue_key, Append(existing, worklog))
                /\ Return("add_worklog", issue_key, worklog)
                /\ Others({"worklogs"})

get_worklogs(issue_key, start_at, max_results) ==
    /\ Call
    /\ IF ~HasIssue(issue_key) THEN NotFound("get_worklogs", issue_key)
       ELSE LET found == Get(worklogs, issue_key, <<>>)
            IN  /\ Return("get_worklogs", issue_key,
                          [startAt |-> start_at, maxResults |-> max_results, total |-> Len(found),
                           worklogs |-> Slice(found, start_at, start_at + max_results)])
                /\ Others({})

get_worklog(issue_key, worklog_id) ==
    /\ Call
    /\ IF ~HasIssue(issue_key) THEN NotFound("get_worklog", issue_key)
       ELSE LET found == Get(worklogs, issue_key, <<>>)
            IN  IF HasId(found, worklog_id)
                THEN Return("get_worklog", issue_key, found[FirstWithId(found, worklog_id)])
                     /\ Others({})
                ELSE NotFound("get_worklog", issue_key)

\* The worklog update_worklog leaves in place of worklog
UpdatedWorklog(worklog, time_spent, started, comment) ==
    LET a == IF time_spent # NoneText
             THEN [worklog EXCEPT !.timeSpent = time_spent,
                                  !.timeSpentSeconds = ParseTimeToSeconds(time_spent)]
             ELSE worklog
        b == IF started # NoneStr THEN [a EXCEPT !.started = started] ELSE a
    IN  IF comment # None THEN [b EXCEPT !.comment = comment] ELSE b

update_worklog(issue_key, worklog_id, time_spent, started, comment) ==
    /\ Call
    /\ IF ~HasIssue(issue_key) THEN NotFound("update_worklog", issue_key)
       ELSE LET found == Get(worklogs, issue_key, <<>>)
            IN  IF HasId(found, worklog_id)
                THEN LET i == FirstWithId(found, worklog_id)
                         worklog == UpdatedWorklog(found[i], time_spent, started, comment)
                     IN  /\ worklogs' = [worklogs EXCEPT ![issue_key] = [found EXCEPT ![i] = worklog]]
                         /\ Return("update_worklog", issue_key, worklog)
                         /\ Others({"worklogs"})
                ELSE NotFound("update_worklog", issue_key)

\* delete_worklog stores the filtered list before it finds out that nothing was removed
delete_worklog(issue_key, worklog_id) ==
    /\ Call
    /\ IF ~HasIssue(issue_key) THEN NotFound("delete_worklog", issue_key)
       ELSE LET found == Get(worklogs, issue_key, <<>>)
                kept == WithoutId(found, worklog_id)
            IN  /\ worklogs' = Put(worklogs, issue_key, kept)
                /\ last' = [op |-> "delete_worklog", key |-> issue_key,
                            err |-> IF Len(kept) = Len(found) THEN "NotFoundError" ELSE "none",
                            ret |-> None]
                /\ Others({"worklogs"})

\* sum(w.get("timeSpentSeconds", 0) for w in worklogs)
RECURSIVE SumSeconds(_)
SumSeconds(list) ==
    IF list = <<>> THEN 0 ELSE Get(Head(list), "timeSpentSeconds", 0) + SumSeconds(Tail(list))

\* get_time_tracking reporting the time spent that is stored with the estimates
TimeTrackingStored(issue_key) ==
    LET timetracking == Get(Get(Issue(issue_key), "fields", EmptyDict), "timetracking", EmptyDict)
    IN  [originalEstimate |-> Get(timetracking, "originalEstimate", <<"0", "m">>),
         remainingEstimate |-> Get(timetracking, "remainingEstimate", <<"0", "m">>),
         timeSpent |-> SecondsToTimeStr(Get(timetracking, "timeSpentSeconds", 0)),
         originalEstimateSeconds |-> Get(timetracking, "originalEstimateSeconds", 0),
         remainingEstimateSeconds |-> Get(timetracking, "remainingEstimateSeconds", 0),
         timeSpentSeconds |-> Get(timetracking, "timeSpentSeconds", 0)]

TimeTracking(issue_key) ==
    LET time_spent_seconds == SumSeconds(Get(worklogs, issue_key, <<>>))
        timetracking == Get(Get(Issue(issue_key), "fields", EmptyDict), "timetracking", EmptyDict)
    IN  [originalEstimate |-> Get(timetracking, "originalEstimate", <<"0", "m">>),
         remainingEstimate |-> Get(timetracking, "remainingEstimate", <<"0", "m">>),
         timeSpent |-> SecondsToTimeStr(time_spent_seconds),
         originalEstimateSeconds |-> Get(timetracking, "originalEstimateSeconds", 0),
         remainingEstimateSeconds |-> Get(timetracking, "remainingEstimateSeconds", 0),
         timeSpentSeconds |-> time_spent_seconds]

get_time_tracking(issue_key) ==
    /\ Call
    /\ IF ~HasIssue(issue_key) THEN NotFound("get_time_tracking", issue_key)
       ELSE Return("get_time_tracking", issue_key, TimeTracking(issue_key)) /\ Others({})

\* The timetracking dict set_time_tracking leaves on the issue
TimetrackingSet(issue, original_estimate, remaining_estimate) ==
    LET tt == Get(issue.fields, "timetracking", EmptyDict)
        a == IF original_estimate # NoneText
             THEN Put(Put(tt, "originalEstimate", original_estimate),
                      "originalEstimateSeconds", ParseTimeToSeconds(original_estimate))
             ELSE tt
    IN  IF remaining_estimate # NoneText
        THEN Put(Put(a, "remainingEstimate", remaining_estimate),
                 "remainingEstimateSeconds", ParseTimeToSeconds(remaining_estimate))
        ELSE a

set_time_tracking(issue_key, original_estimate, remaining_estimate) ==
    /\ Call
    /\ IF ~HasIssue(issue_key) THEN NotFound("set_time_tracking", issue_key)
       ELSE /\ issues' = SetField(issues, issue_key, "timetracking",
                                  TimetrackingSet(Issue(issue_key), original_estimate, remaining_estimate))
            /\ Return("set_time_tracking", issue_key, None)
            /\ Others({"issues"})

-----------------------------------------------------------------------------
(***************************************************************************)
(* Sprints.                                                                *)
(***************************************************************************)
\* A round of the loop that appends key to the target sprint and removes nothing
MovedKeyAppended(si, sprint_id, key) == [si EXCEPT ![sprint_id] = Append(@, key)]

\* One round of the loop of move_issues_to_sprint: key leaves every sprint that
\* lists it (list.remove: its first occurrence) and joins the target sprint
MovedKey(si, sprint_id, key) ==
    LET removed == [sid \in DOMAIN si |->
                        IF InSeq(key, si[sid]) THEN RemoveFirst(si[sid], key) ELSE si[sid]]
    IN  [removed EXCEPT ![sprint_id] = IF InSeq(key, @) THEN @ ELSE Append(@, key)]

\* The loop: it stops at the first key that is not in the store, keeping what the
\* rounds before it did
RECURSIVE MoveLoop(_, _, _)
MoveLoop(si, sprint_id, issue_keys) ==
    IF issue_keys = <<>> THEN [sprint_issues |-> si, err |-> "none"]
    ELSE IF ~HasIssue(Head(issue_keys)) THEN [sprint_issues |-> si, err |-> "NotFoundError"]
    ELSE MoveLoop(MovedKey(si, sprint_id, Head(issue_keys)), sprint_id, Tail(issue_keys))

move_issues_to_sprint(sprint_id, issue_keys) ==
    /\ Call
    /\ IF ~(\E i \in 1..Len(sprints) : sprints[i].id = sprint_id)
       THEN NotFound("move_issues_to_sprint", <<>>)
       ELSE LET start == IF sprint_id \in DOMAIN sprint_issues THEN sprint_issues
                         ELSE Put(sprint_issues, sprint_id, <<>>)
                done == MoveLoop(start, sprint_id, issue_keys)
            IN  /\ sprint_issues' = done.sprint_issues
                /\ last' = [op |-> "move_issues_to_sprint", key |-> <<>>, err |-> done.err,
                            ret |-> None, sprint_id |-> sprint_id, issue_keys |-> issue_keys]
                /\ Others({"sprint_issues"})

get_sprint_issues(sprint_id, max_results, start_at) ==
    /\ Call
    /\ LET issue_keys == Get(sprint_issues, sprint_id, <<>>)
           stored == SelectSeq(issue_keys, LAMBDA k : HasIssue(k))
           found == [i \in 1..Len(stored) |-> Issue(stored[i])]
       IN  /\ last' = [op |-> "get_sprint_issues", key |-> <<>>, err |-> "none",
                       ret |-> [maxResults |-> max_results, startAt |-> start_at,
                                total |-> Len(found),
                                issues |-> Slice(found, start_at, start_at + max_results)],
                       sprint_id |-> sprint_id]
           /\ Others({})

\* The backlog of a board that is every issue of the board's project
BacklogIssuesOfProject(board) ==
    LET project_key == Get(Get(board, "location", EmptyDict), "projectKey", DEMO)
    IN  SelectSeq(issues, LAMBDA issue : StartsWith(issue.key, project_key \o Dash))

\* The backlog of a board: the issues of the board's project that no active
\* sprint lists, in the order of the store
BacklogIssues(board) ==
    LET active_sprint_issues ==
            UNION {{Get(sprint_issues, sprints[s].id, <<>>)[i] :
                       i \in 1..Len(Get(sprint_issues, sprints[s].id, <<>>))} :
                   s \in {s \in 1..Len(sprints) : sprints[s].state = "active"}}
        project_key == Get(Get(board, "location", EmptyDict), "projectKey", DEMO)
    IN  SelectSeq(issues, LAMBDA issue : /\ StartsWith(issue.key, project_key \o Dash)
                                         /\ issue.key \notin active_sprint_issues)

\* get_board raises NotFoundError for a board id that BOARDS does not hold
get_board_backlog(board_id, max_results, start_at) ==
    /\ Call
    /\ IF ~(\E i \in 1..Len(BOARDS) : BOARDS[i].id = board_id)
       THEN NotFound("get_board_backlog", <<>>)
       ELSE LET board == BOARDS[CHOOSE i \in 1..Len(BOARDS) :
                                    /\ BOARDS[i].id = board_id
                                    /\ \A j \in 1..(i - 1) : BOARDS[j].id # board_id]
                backlog_issues == BacklogIssues(board)
            IN  /\ Return("get_board_backlog", <<>>,
                          [maxResults |-> max_results, startAt |-> start_at,
                           total |-> Len(backlog_issues),
                           issues |-> Slice(backlog_issues, start_at, start_at + max_results)])
                /\ Others({})

-----------------------------------------------------------------------------
(***************************************************************************)
(* Issue links.  A link entry holds a reference to the issue object at its *)
(* other end ("outwardIssue": self._issues[outward_key]); here it holds    *)
(* that issue's key, which no method changes.                              *)
(***************************************************************************)
get_issue_links(issue_key) ==
    /\ Call
    /\ IF ~HasIssue(issue_key) THEN NotFound("get_issue_links", issue_key)
       ELSE Return("get_issue_links", issue_key, Get(issue_links, issue_key, <<>>)) /\ Others({})

\* lt["name"].lower() == link_type.lower()
KnownLinkType(link_type) ==
    \E i \in 1..Len(LINK_TYPES) : LowerName(LINK_TYPES[i].name) = LowerName(link_type)

LinkTypeInfo(link_type) ==
    LINK_TYPES[CHOOSE i \in 1..Len(LINK_TYPES) :
                   /\ LowerName(LINK_TYPES[i].name) = LowerName(link_type)
                   /\ \A j \in 1..(i - 1) : LowerName(LINK_TYPES[j].name) # LowerName(link_type)]

\* create_link advancing the counter before it validates its arguments
LinkCreatedCountingFirst(stored, links, counter, link_type, inward_key, outward_key) ==
    IF inward_key \notin stored \/ outward_key \notin stored
    THEN [err |-> "NotFoundError", issue_links |-> links, next_link_id |-> counter + 1]
    ELSE IF ~(\E i \in 1..Len(LINK_TYPES) : LowerName(LINK_TYPES[i].name) = LowerName(link_type))
    THEN [err |-> "ValidationError", issue_links |-> links, next_link_id |-> counter + 1]
    ELSE LET link_id == Digits(counter + 1)
             info == LINK_TYPES[CHOOSE i \in 1..Len(LINK_TYPES) :
                                    LowerName(LINK_TYPES[i].name) = LowerName(link_type)]
             outward_link == [id |-> link_id, type |-> info, outwardIssue |-> outward_key]
             inward_link == [id |-> link_id, type |-> info, inwardIssue |-> inward_key]
             a == Put(links, inward_key, Append(Get(links, inward_key, <<>>), outward_link))
             b == Put(a, outward_key, Append(Get(a, outward_key, <<>>), inward_link))
         IN  [err |-> "none", issue_links |-> b, next_link_id |-> counter + 1]

\* create_link on a store holding the keys stored, the links dict links and the
\* counter counter: the error raised, the links and the counter it leaves
LinkCreated(stored, links, counter, link_type, inward_key, outward_key) ==
    IF inward_key \notin stored \/ outward_key \notin stored
    THEN [err |-> "NotFoundError", issue_links |-> links, next_link_id |-> counter]
    ELSE IF ~KnownLinkType(link_type)
    THEN [err |-> "ValidationError", issue_links |-> links, next_link_id |-> counter]
    ELSE LET link_id == Digits(counter + 1)
             info == LinkTypeInfo(link_type)
             outward_link == [id |-> link_id, type |-> info, outwardIssue |-> outward_key]
             inward_link == [id |-> link_id, type |-> info, inwardIssue |-> inward_key]
             a == Put(links, inward_key, Append(Get(links, inward_key, <<>>), outward_link))
             b == Put(a, outward_key, Append(Get(a, outward_key, <<>>), inward_link))
         IN  [err |-> "none", issue_links |-> b, next_link_id |-> counter + 1]

create_link(link_type, inward_key, outward_key) ==
    /\ Call
    /\ LET done == LinkCreated(IssueKeys, issue_links, next_link_id, link_type, inward_key, outward_key)
       IN  /\ issue_links' = done.issue_links
           /\ next_link_id' = done.next_link_id
           /\ last' = [op |-> "create_link", key |-> <<>>, err |-> done.err, ret |-> None,
                       link_type |-> link_type, inward_key |-> inward_key,
                       outward_key |-> outward_key]
           /\ Others({"issue_links", "next_link_id"})

get_link(link_id) ==
    /\ Call
    /\ IF \E k \in DOMAIN issue_links : HasId(issue_links[k], link_id)
       THEN Return("get_link", link_id, TRUE) /\ Others({})
       ELSE NotFound("get_link", link_id)

\* delete_link dropping only the entries that name an outward issue
delete_link_outward_only(link_id) ==
    /\ Call
    /\ IF \E k \in DOMAIN issue_links : HasId(issue_links[k], link_id)
       THEN /\ issue_links' = [k \in DOMAIN issue_links |->
                                   SelectSeq(issue_links[k],
                                             LAMBDA l : l.id # link_id \/ "inwardIssue" \in DOMAIN l)]
            /\ Return("delete_link", link_id, None)
            /\ Others({"issue_links"})
       ELSE NotFound("delete_link", link_id)

delete_link(link_id) ==
    /\ Call
    /\ IF \E k \in DOMAIN issue_links : HasId(issue_links[k], link_id)
       THEN /\ issue_links' = [k \in DOMAIN issue_links |-> WithoutId(issue_links[k], link_id)]
            /\ Return("delete_link", link_id, None)
            /\ Others({"issue_links"})
       ELSE NotFound("delete_link", link_id)

\* The clone_links loop of clone_issue, at entry i of the original's list.  The
\* list is read anew in every round: create_link may append to it.  An error of
\* create_link is swallowed.
RECURSIVE CloneLinks(_, _, _, _, _, _)
CloneLinks(stored, links, counter, issue_key, clone_key, i) ==
    LET list == Get(links, issue_key, <<>>)
        link == list[i]
        done == IF "outwardIssue" \in DOMAIN link
                THEN LinkCreated(stored, links, counter, link.type.name, clone_key, link.outwardIssue)
                ELSE LinkCreated(stored, links, counter, link.type.name, link.inwardIssue, clone_key)
    IN  IF i > Len(list) THEN [issue_links |-> links, next_link_id |-> counter]
        ELSE IF link.type.name = "Cloners"
        THEN CloneLinks(stored, links, counter, issue_key, clone_key, i + 1)
        ELSE CloneLinks(stored, done.issue_links, done.next_link_id, issue_key, clone_key, i + 1)

\* clone_issue handing create_issue the fields without the labels
CloneFieldsUnlabelled(original_fields, summary) ==
    [project |-> [key |-> original_fields.project.key],
     issuetype |-> original_fields.issuetype,
     summary |-> IF summary # NoneStr /\ summary # "" THEN summary
                 ELSE Get(original_fields, "summary", "Clone"),
     description |-> Get(original_fields, "description", None),
     priority |-> Get(original_fields, "priority", None)]

\* The fields clone_issue hands to create_issue
CloneFields(original_fields, summary) ==
    [project |-> [key |-> original_fields.project.key],
     issuetype |-> original_fields.issuetype,
     summary |-> IF summary # NoneStr /\ summary # "" THEN summary
                 ELSE Get(original_fields, "summary", "Clone"),
     description |-> Get(original_fields, "description", None),
     priority |-> Get(original_fields, "priority", None),
     labels |-> Get(original_fields, "labels", <<>>)]

clone_issue(issue_key, summary, clone_links) ==
    /\ Call
    /\ IF ~HasIssue(issue_key) THEN NotFound("clone_issue", issue_key)
       ELSE LET clone == NewIssue(CloneFields(Issue(issue_key).fields, summary), next_issue_id + 1)
                store == StoreIssue(issues, clone)
                stored == {store[i].key : i \in 1..Len(store)}
                cloners == LinkCreated(stored, issue_links, next_link_id, "Cloners", issue_key, clone.key)
                done == IF clone_links
                        THEN CloneLinks(stored, cloners.issue_links, cloners.next_link_id,
                                        issue_key, clone.key, 1)
                        ELSE cloners
            IN  /\ next_issue_id' = next_issue_id + 1
                /\ issues' = store
                /\ issue_links' = done.issue_links
                /\ next_link_id' = done.next_link_id
                /\ last' = [op |-> "clone_issue", key |-> issue_key, err |-> "none",
                            ret |-> [key |-> clone.key, id |-> clone.id], summary |-> summary]
                /\ Others({"issues", "next_issue_id", "issue_links", "next_link_id"})

-----------------------------------------------------------------------------
(***************************************************************************)
(* Service desk queues.                                                    *)
(***************************************************************************)
QUEUES ==
    [sd \in {Digits(1)} |->
        << [id |-> Digits(1), name |-> <<"A", "l", "l", " ", "o", "p", "e", "n">>, issueCount |-> 5],
           [id |-> Digits(2), name |-> <<"A", "s", "s", "i", "g", "n", "e", "d", " ", "t", "o", " ",
                                           "m", "e">>, issueCount |-> 0],
           [id |-> Digits(3), name |-> <<"U", "n", "a", "s", "s", "i", "g", "n", "e", "d">>,
            issueCount |-> 5] >>]

W_unassigned == <<"u", "n", "a", "s", "s", "i", "g", "n", "e", "d">>

W_assigned_to_me == <<"a", "s", "s", "i", "g", "n", "e", "d", " ", "t", "o", " ", "m", "e">>

\* get_queue: the queues of the service desk that carry str(queue_id)
QueuesFound(service_desk_id, queue_id) ==
    SelectSeq(Get(QUEUES, Digits(service_desk_id), <<>>), LAMBDA q : q.id = Digits(queue_id))

\* i["fields"].get("assignee", {}).get("accountId") fails on an assignee that is None
get_queue_issues(service_desk_id, queue_id, start, limit) ==
    /\ Call
    /\ LET demosd_issues == SelectSeq(issues, LAMBDA i : StartsWith(i.key, DEMOSD \o Dash))
           found == QueuesFound(service_desk_id, queue_id)
           queue_name == Lower(Get(found[1], "name", <<>>))
           unassigned == SelectSeq(demosd_issues, LAMBDA i : Get(i.fields, "assignee", None) = None)
           mine == SelectSeq(demosd_issues,
                             LAMBDA i : Get(Get(i.fields, "assignee", EmptyDict),
                                            "accountId", NoneStr) = "abc123")
           ask(op, err, ret) == last' = [op |-> op, key |-> <<>>, err |-> err, ret |-> ret,
                                         service_desk_id |-> service_desk_id,
                                         queue_id |-> queue_id]
           page(list) == [size |-> Len(Slice(list, start, start + limit)),
                          start |-> start, limit |-> limit,
                          isLastPage |-> start + limit >= Len(list),
                          values |-> Slice(list, start, start + limit)]
       IN  /\ IF found = <<>> THEN ask("get_queue_issues", "NotFoundError", None)
              ELSE IF Contains(queue_name, W_unassigned)
              THEN ask("get_queue_issues", "none", page(unassigned))
              ELSE IF Contains(queue_name, W_assigned_to_me)
              THEN IF \E n \in 1..Len(demosd_issues) :
                          Get(demosd_issues[n].fields, "assignee", EmptyDict) = None
                   THEN ask("get_queue_issues", "AttributeError", None)
                   ELSE ask("get_queue_issues", "none", page(mine))
              ELSE ask("get_queue_issues", "none", page(demosd_issues))
           /\ Others({})

-----------------------------------------------------------------------------
(***************************************************************************)
(* Service desk requests.                                                  *)
(***************************************************************************)
REQUEST_TYPES ==
    [sd1 \in {"1"} |->
        << [id |-> "1", name |-> "IT help"], [id |-> "2", name |-> "Computer support"],
           [id |-> "3", name |-> "New employee"], [id |-> "4", name |-> "Travel request"],
           [id |-> "5", name |-> "Purchase over $100"] >>]

NewRequest(service_desk_id, request_type_id, request_field_values, raise_on_behalf_of, n) ==
    LET request_types == Get(REQUEST_TYPES, service_desk_id, <<>>)
        type_name == IF \E i \in 1..Len(request_types) : request_types[i].id = request_type_id
                     THEN request_types[CHOOSE i \in 1..Len(request_types) :
                                            request_types[i].id = request_type_id].name
                     ELSE "IT help"
    IN  [key |-> KeyOf(DEMOSD, n),
         id |-> Digits(20000 + n),
         fields |->
            [summary |-> Get(request_field_values, "summary", "New Request"),
             description |-> Get(request_field_values, "description", None),
             issuetype |-> [name |-> type_name, id |-> "10100"],
             status |-> [name |-> "Waiting for support", id |-> "10100"],
             priority |-> [name |-> "Medium", id |-> "3"],
             assignee |-> None,
             reporter |-> Get(USERS, raise_on_behalf_of, USERS["abc123"]),
             project |-> DemoSdProject,
             labels |-> <<>>],
         requestTypeId |-> request_type_id,
         serviceDeskId |-> service_desk_id,
         currentStatus |-> [status |-> "Waiting for support", statusCategory |-> "new"]]

create_request(service_desk_id, request_type_id, request_field_values, raise_on_behalf_of) ==
    /\ Call
    /\ LET new_issue == NewRequest(service_desk_id, request_type_id, request_field_values,
                                   raise_on_behalf_of, next_issue_id + 1)
       IN  /\ next_issue_id' = next_issue_id + 1
           /\ issues' = StoreIssue(issues, new_issue)
           /\ Return("create_request", new_issue.key, [issueKey |-> new_issue.key, issueId |-> new_issue.id])
           /\ Others({"issues", "next_issue_id"})

-----------------------------------------------------------------------------
(***************************************************************************)
(* search_issues: the words its substring tests look for.                  *)
(***************************************************************************)
W_TYPE == <<"T", "Y", "P", "E">>

W_ISSUETYPE == <<"I", "S", "S", "U", "E", "T", "Y", "P", "E">>

W_PROJECT == <<"P", "R", "O", "J", "E", "C", "T">>

W_ASSIGNEE == <<"A", "S", "S", "I", "G", "N", "E", "E">>

W_REPORTER == <<"R", "E", "P", "O", "R", "T", "E", "R">>

W_STATUS == <<"S", "T", "A", "T", "U", "S">>

W_PRIORITY == <<"P", "R", "I", "O", "R", "I", "T", "Y">>

W_SPRINT == <<"S", "P", "R", "I", "N", "T">>

W_BUG == <<"B", "U", "G">>

W_STORY == <<"S", "T", "O", "R", "Y">>

W_EPIC == <<"E", "P", "I", "C">>

W_TASK == <<"T", "A", "S", "K">>

W_DONE == <<"D", "O", "N", "E">>

W_OPEN == <<"O", "P", "E", "N">>

W_IN_PROGRESS == <<"\"", "I", "N", " ", "P", "R", "O", "G", "R", "E", "S", "S", "\"">>

W_TO_DO == <<"\"", "T", "O", " ", "D", "O", "\"">>

W_HIGH == <<"H", "I", "G", "H">>

W_MEDIUM == <<"M", "E", "D", "I", "U", "M">>

W_LOW == <<"L", "O", "W">>

W_currentuser == <<"c", "u", "r", "r", "e", "n", "t", "u", "s", "e", "r", "(", ")">>

W_jane == <<"j", "a", "n", "e">>

W_jason == <<"j", "a", "s", "o", "n">>

W_parent == <<"p", "a", "r", "e", "n", "t">>

W_epic_link == <<"\"", "e", "p", "i", "c", " ", "l", "i", "n", "k", "\"">>

W_SPRINT_IN_OPENSPRINTS == <<"S", "P", "R", "I", "N", "T", " ", "I", "N", " ", "O", "P", "E",
    "N", "S", "P", "R", "I", "N", "T", "S", "(", ")">>

W_SPRINT_IN_ACTIVE == <<"S", "P", "R", "I", "N", "T", " ", "I", "N", " ", "(", "A", "C", "T",
    "I", "V", "E", ")">>

W_token == <<"t", "o", "k", "e", "n", "_">>

\* "<lhs> = <rhs>" in hay or "<lhs>=<rhs>" in hay
HasEq(hay, lhs, rhs) ==
    \/ Contains(hay, lhs \o <<" ", "=", " ">> \o rhs)
    \/ Contains(hay, lhs \o <<"=">> \o rhs)

\* "STATUS != DONE" in hay or "STATUS!=DONE" in hay or "STATUS <> DONE" in hay
HasStatusNotDone(hay) ==
    \/ Contains(hay, W_STATUS \o <<" ", "!", "=", " ">> \o W_DONE)
    \/ Contains(hay, W_STATUS \o <<"!", "=">> \o W_DONE)
    \/ Contains(hay, W_STATUS \o <<" ", "<", ">", " ">> \o W_DONE)

\* jql.upper() with TYPE normalised to ISSUETYPE
JqlUpper(jql) ==
    Replace(Replace(Upper(jql), W_TYPE \o <<" ", "=">>, W_ISSUETYPE \o <<" ", "=">>),
            W_TYPE \o <<"=">>, W_ISSUETYPE \o <<"=">>)

\* The filters search_issues applies with re.search (text ~, summary ~, "Epic Link" =,
\* parent =) match no query without "~", "parent" and "epic link" in it; the queries
\* searched here are those
NoRegexFilter(jql) ==
    /\ ~Contains(jql, <<"~">>)
    /\ ~Contains(Lower(jql), W_parent)
    /\ ~Contains(Lower(jql), W_epic_link)

\* The project filter by key prefix alone, DEMO tested first: DEMOSD keys start
\* with DEMO too
ByProjectPrefix(list, jql_upper) ==
    IF HasEq(jql_upper, W_PROJECT, DEMO)
    THEN SelectSeq(list, LAMBDA i : StartsWith(i.key, DEMO))
    ELSE IF HasEq(jql_upper, W_PROJECT, DEMOSD)
    THEN SelectSeq(list, LAMBDA i : StartsWith(i.key, DEMOSD))
    ELSE list

ByProject(list, jql_upper) ==
    IF HasEq(jql_upper, W_PROJECT, DEMOSD)
    THEN SelectSeq(list, LAMBDA i : StartsWith(i.key, DEMOSD \o Dash))
    ELSE IF HasEq(jql_upper, W_PROJECT, DEMO)
    THEN SelectSeq(list, LAMBDA i : StartsWith(i.key, DEMO \o Dash) /\ ~StartsWith(i.key, DEMOSD \o Dash))
    ELSE list

\* i["fields"].get("assignee") and ...: the assignee is a dict with entries
HasAssignee(i) == Get(i.fields, "assignee", None) # None /\ DOMAIN i.fields.assignee # {}

AssigneeNamed(i, name) ==
    HasAssignee(i) /\ LowerName(Get(i.fields.assignee, "displayName", "")) = name

ByAssignee(list, jql, jql_upper) ==
    IF ~Contains(jql_upper, W_ASSIGNEE) THEN list
    ELSE IF Contains(Lower(jql), W_currentuser)
    THEN SelectSeq(list, LAMBDA i : HasAssignee(i) /\ Get(i.fields.assignee, "accountId", "") = "abc123")
    ELSE IF Contains(Lower(jql), W_jane)
    THEN SelectSeq(list, LAMBDA i : AssigneeNamed(i, "jane manager"))
    ELSE IF Contains(Lower(jql), W_jason)
    THEN SelectSeq(list, LAMBDA i : AssigneeNamed(i, "jason krueger"))
    ELSE list

ByIssueType(list, jql_upper) ==
    IF HasEq(jql_upper, W_ISSUETYPE, W_BUG) THEN SelectSeq(list, LAMBDA i : i.fields.issuetype.name = "Bug")
    ELSE IF HasEq(jql_upper, W_ISSUETYPE, W_STORY) THEN SelectSeq(list, LAMBDA i : i.fields.issuetype.name = "Story")
    ELSE IF HasEq(jql_upper, W_ISSUETYPE, W_EPIC) THEN SelectSeq(list, LAMBDA i : i.fields.issuetype.name = "Epic")
    ELSE IF HasEq(jql_upper, W_ISSUETYPE, W_TASK) THEN SelectSeq(list, LAMBDA i : i.fields.issuetype.name = "Task")
    ELSE list

ByStatus(list, jql_upper) ==
    IF HasStatusNotDone(jql_upper) THEN SelectSeq(list, LAMBDA i : i.fields.status.name # "Done")
    ELSE IF HasEq(jql_upper, W_STATUS, W_IN_PROGRESS)
    THEN SelectSeq(list, LAMBDA i : i.fields.status.name = "In Progress")
    ELSE IF HasEq(jql_upper, W_STATUS, W_TO_DO)
    THEN SelectSeq(list, LAMBDA i : i.fields.status.name = "To Do")
    ELSE IF HasEq(jql_upper, W_STATUS, W_OPEN)
    THEN SelectSeq(list, LAMBDA i : i.fields.status.name # "Done")
    ELSE list

ByPriority(list, jql_upper) ==
    IF HasEq(jql_upper, W_PRIORITY, W_HIGH) THEN SelectSeq(list, LAMBDA i : i.fields.priority.name = "High")
    ELSE IF HasEq(jql_upper, W_PRIORITY, W_MEDIUM) THEN SelectSeq(list, LAMBDA i : i.fields.priority.name = "Medium")
    ELSE IF HasEq(jql_upper, W_PRIORITY, W_LOW) THEN SelectSeq(list, LAMBDA i : i.fields.priority.name = "Low")
    ELSE list

ReporterNamed(i, name) ==
    LowerName(Get(Get(i.fields, "reporter", EmptyDict), "displayName", "")) = name

ByReporter(list, jql, jql_upper) ==
    IF ~Contains(jql_upper, W_REPORTER) THEN list
    ELSE IF Contains(Lower(jql), W_jane) THEN SelectSeq(list, LAMBDA i : ReporterNamed(i, "jane manager"))
    ELSE IF Contains(Lower(jql), W_jason) THEN SelectSeq(list, LAMBDA i : ReporterNamed(i, "jason krueger"))
    ELSE list

\* The keys listed in the sprints whose state is active
ActiveSprintKeys ==
    {k \in UNION {{Get(sprint_issues, sprints[s].id, <<>>)[i] :
                      i \in 1..Len(Get(sprint_issues, sprints[s].id, <<>>))} :
                  s \in {s \in 1..Len(sprints) : sprints[s].state = "active"}} : TRUE}

BySprint(list, jql_upper) ==
    IF Contains(jql_upper, W_SPRINT)
       /\ (Contains(jql_upper, W_SPRINT_IN_OPENSPRINTS) \/ Contains(jql_upper, W_SPRINT_IN_ACTIVE))
    THEN SelectSeq(list, LAMBDA i : i.key \in ActiveSprintKeys)
    ELSE list

\* The issues that pass every filter of search_issues, in the order of the store
Filtered(jql) ==
    LET jql_upper == JqlUpper(jql)
    IN  BySprint(
          ByReporter(
            ByPriority(
              ByStatus(
                ByIssueType(
                  ByAssignee(
                    ByProject(issues, jql_upper),
                    jql, jql_upper),
                  jql_upper),
                jql_upper),
              jql_upper),
            jql, jql_upper),
          jql_upper)

\* The response with the length of the page as its total
PaginatedPageTotal(list, max_results, start_at) ==
    LET paginated == Slice(list, start_at, start_at + max_results)
        is_last == start_at + Len(paginated) >= Len(list)
    IN  [startAt |-> start_at,
         maxResults |-> max_results,
         total |-> Len(paginated),
         issues |-> paginated,
         isLast |-> is_last,
         nextPageToken |-> IF is_last THEN NoneText ELSE W_token \o Digits(start_at + max_results)]

\* The response search_issues builds from the filtered list; start_at is the
\* offset "start_at or 0"
Paginated(list, max_results, start_at) ==
    LET offset == start_at
        paginated == Slice(list, offset, offset + max_results)
        is_last == offset + Len(paginated) >= Len(list)
    IN  [startAt |-> offset,
         maxResults |-> max_results,
         total |-> Len(list),
         issues |-> paginated,
         isLast |-> is_last,
         nextPageToken |-> IF is_last THEN NoneText ELSE W_token \o Digits(offset + max_results)]

SearchIssues(jql, max_results, start_at) == Paginated(Filtered(jql), max_results, start_at)

search_issues(jql, max_results, start_at) ==
    /\ Call
    /\ NoRegexFilter(jql)
    /\ last' = [op |-> "search_issues", key |-> jql, err |-> "none",
                ret |-> SearchIssues(jql, max_results, start_at),
                max_results |-> max_results, start_at |-> start_at]
    /\ Others({})

-----------------------------------------------------------------------------
(***************************************************************************)
(* The state after __init__.                                               *)
(***************************************************************************)
FirstIssueCounter == 100

FirstLinkCounter == 1000

NoBulk == [pc |-> "idle"]

Constructed ==
    /\ issues = init_issues
    /\ next_issue_id = FirstIssueCounter
    /\ comments = EmptyDict
    /\ worklogs = EmptyDict
    /\ project_role_actors = EmptyDict
    /\ sprint_issues = [sid \in {1} |-> <<KeyOf(DEMO, 85), KeyOf(DEMO, 86)>>]
    /\ watchers = EmptyDict
    /\ issue_links = EmptyDict
    /\ next_link_id = FirstLinkCounter
    /\ last = [op |-> "__init__", key |-> <<>>, err |-> "none", ret |-> None]
    /\ deleted = {}
    /\ bulk = NoBulk

-----------------------------------------------------------------------------
(***************************************************************************)
(* The arguments the calls are made with.                                  *)
(***************************************************************************)
SeedKeys == {init_issues[i].key : i \in 1..Len(init_issues)}

\* A key no call creates
MissingKey == KeyOf(DEMO, 999)

\* The keys the create calls have made so far, stored or deleted since
CreatedKeys == (IssueKeys \cup deleted) \ SeedKeys

\* A seed issue, a key that is not stored, and the keys created
FewKeys == {KeyOf(DEMO, 84), MissingKey} \cup CreatedKeys

\* Seed issues of both projects, a key that is not stored, and the keys created
ArgKeys == {KeyOf(DEMO, 84), KeyOf(DEMO, 91), KeyOf(DEMOSD, 1), MissingKey} \cup CreatedKeys

ArgAccounts == {"abc123", "def456", "zzz999"}

ArgTransitionIds == {"11", "21", "31", "99"}

ArgCreateFields ==
    { [project |-> [key |-> DEMO], summary |-> "Crash on save", issuetype |-> [name |-> "Bug"],
       priority |-> [name |-> "High"]],
      [project |-> [key |-> DEMOSD], summary |-> "Printer is offline"],
      [summary |-> "Write release notes", assignee |-> JaneAssignee, labels |-> <<"docs">>] }

ArgUpdateFields ==
    { [summary |-> "Renamed"],
      [status |-> [name |-> "Done", id |-> "10002"], labels |-> <<>>],
      [customfield_10016 |-> 5],
      EmptyDict,
      None }

ArgSprintIds == {1, 2}

JqlProjectDemo == <<"p", "r", "o", "j", "e", "c", "t", " ", "=", " ", "D", "E", "M", "O">>

JqlProjectDemoSd == <<"p", "r", "o", "j", "e", "c", "t", " ", "=", " ", "D", "E", "M", "O",
    "S", "D">>

JqlStatusDone == <<"s", "t", "a", "t", "u", "s", " ", "=", " ", "D", "o", "n", "e">>

JqlStatusInProgress == <<"s", "t", "a", "t", "u", "s", " ", "=", " ", "\"", "I", "n", " ",
    "P", "r", "o", "g", "r", "e", "s", "s", "\"">>

JqlStatusToDo == <<"s", "t", "a", "t", "u", "s", " ", "=", " ", "\"", "T", "o", " ", "D", "o",
    "\"">>

JqlAssigneeJason == <<"a", "s", "s", "i", "g", "n", "e", "e", " ", "=", " ", "j", "a", "s",
    "o", "n">>

JqlAssigneeJane == <<"a", "s", "s", "i", "g", "n", "e", "e", " ", "=", " ", "j", "a", "n",
    "e">>

JqlAssigneeCurrentUser == <<"a", "s", "s", "i", "g", "n", "e", "e", " ", "=", " ", "c", "u",
    "r", "r", "e", "n", "t", "U", "s", "e", "r", "(", ")">>

JqlReporterJane == <<"r", "e", "p", "o", "r", "t", "e", "r", " ", "=", " ", "j", "a", "n",
    "e">>

JqlReporterJason == <<"r", "e", "p", "o", "r", "t", "e", "r", " ", "=", " ", "j", "a", "s",
    "o", "n">>

JqlTypeBug == <<"t", "y", "p", "e", " ", "=", " ", "B", "u", "g">>

JqlPriorityHigh == <<"p", "r", "i", "o", "r", "i", "t", "y", " ", "=", " ", "H", "i", "g",
    "h">>

JqlOpenSprints == <<"s", "p", "r", "i", "n", "t", " ", "i", "n", " ", "o", "p", "e", "n", "S",
    "p", "r", "i", "n", "t", "s", "(", ")">>

JqlAnd == <<" ", "A", "N", "D", " ">>

And(a, b) == a \o JqlAnd \o b

\* Queries of one clause
ArgClauses ==
    {JqlProjectDemo, JqlProjectDemoSd, JqlStatusDone, JqlStatusInProgress, JqlStatusToDo,
     JqlAssigneeJason, JqlAssigneeJane, JqlAssigneeCurrentUser, JqlReporterJane, JqlTypeBug,
     JqlPriorityHigh, JqlOpenSprints}

\* Queries of two clauses
ArgConjunctions ==
    {And(JqlProjectDemo, JqlStatusDone), And(JqlProjectDemo, JqlStatusToDo),
     And(JqlProjectDemoSd, JqlStatusInProgress),
     And(JqlAssigneeJason, JqlReporterJane), And(JqlAssigneeJane, JqlReporterJason),
     And(JqlAssigneeCurrentUser, JqlReporterJane), And(JqlAssigneeJason, JqlProjectDemo)}

ArgJqls == ArgClauses \cup ArgConjunctions

DefaultMaxResults == 50

\* <<max_results, start_at>>
ArgPages == {<<0, 0>>, <<2, 0>>, <<2, 1>>, <<5, 12>>, <<3, 20>>, <<50, 3>>}

ArgPagedJqls == {JqlProjectDemo, JqlStatusToDo, JqlAssigneeJane}

-----------------------------------------------------------------------------
(***************************************************************************)
(* The bulk transition of the command line (bulk_cmds._bulk_transition_impl *)
(* and _find_transition), run against this client.  Its code is not among  *)
(* the files of the library kept here; it is modelled from its documented   *)
(* behaviour and its tests: the issues are taken in order, each inside a    *)
(* try/except for JiraError; for each the client is asked for the issue's   *)
(* transitions, the transition to the target status is looked up by name or *)
(* target status without regard to case, and the issue is transitioned; an  *)
(* issue without such a transition, or whose client call raises, is counted *)
(* as failed and its error is stored under its key.                         *)
(***************************************************************************)
\* The characters of a transition or status name
NameText(name) ==
    CASE name = "To Do" -> <<"T", "o", " ", "D", "o">>
      [] name = "In Progress" -> <<"I", "n", " ", "P", "r", "o", "g", "r", "e", "s", "s">>
      [] name = "Done" -> <<"D", "o", "n", "e">>

\* The transition named target or leading to the status named target
ExactTransition(t, target) ==
    \/ Lower(NameText(t.name)) = Lower(target)
    \/ Lower(NameText(t.to.name)) = Lower(target)

\* The transition whose name or target status contains target
PartialTransition(t, target) ==
    \/ Contains(Lower(NameText(t.name)), Lower(target))
    \/ Contains(Lower(NameText(t.to.name)), Lower(target))

\* _find_transition: the first exact match, else the first partial one, else None
FindTransition(transitions, target) ==
    LET exact == {i \in 1..Len(transitions) : ExactTransition(transitions[i], target)}
        partial == {i \in 1..Len(transitions) : PartialTransition(transitions[i], target)}
        least(S) == CHOOSE i \in S : \A j \in S : i <= j
    IN  IF exact # {} THEN transitions[least(exact)]
        ELSE IF partial # {} THEN transitions[least(partial)]
        ELSE None

\* The run with one more issue counted as failed with error err
ItemFailed(run, issue_key, err) ==
    [run EXCEPT !.index = @ + 1,
                !.attempted = Append(@, issue_key),
                !.failed = @ + 1,
                !.errors = Put(@, issue_key, err)]

\* The loop body stopping the run at the first issue that fails
ItemProcessedOrAborted(run, store) ==
    LET issue_key == run.keys[run.index]
        found == FindTransition(TRANSITIONS, run.target)
    IN  IF ~(issue_key \in {store[i].key : i \in 1..Len(store)}) \/ found = None
        THEN [run |-> [ItemFailed(run, issue_key, "failed") EXCEPT !.index = Len(run.keys) + 1],
              issues |-> store]
        ELSE [run |-> [run EXCEPT !.index = @ + 1, !.attempted = Append(@, issue_key),
                                  !.success = @ + 1],
              issues |-> Transitioned(store, issue_key, found.id)]

\* The loop body for the issue at run.index: the run and the store it leaves
ItemProcessed(run, store) ==
    LET issue_key == run.keys[run.index]
        found == FindTransition(TRANSITIONS, run.target)
    IN  IF ~(issue_key \in {store[i].key : i \in 1..Len(store)})
        THEN \* client.get_transitions raises NotFoundError, a JiraError
             [run |-> ItemFailed(run, issue_key, "NotFoundError"), issues |-> store]
        ELSE IF found = None
        THEN [run |-> ItemFailed(run, issue_key, "no transition"), issues |-> store]
        ELSE [run |-> [run EXCEPT !.index = @ + 1, !.attempted = Append(@, issue_key),
                                  !.success = @ + 1],
              issues |-> Transitioned(store, issue_key, found.id)]

\* _bulk_transition_impl(issue_keys=..., target_status=..., dry_run=...) is called.
\* A dry run returns at once and calls nothing.
bulk_transition_start(issue_keys, target_status, dry_run) ==
    /\ bulk.pc = "idle"
    /\ Len(issue_keys) <= budget
    /\ IF dry_run
       THEN /\ last' = [op |-> "bulk_transition", key |-> issue_keys, err |-> "none",
                        ret |-> [dry_run |-> TRUE, would_process |-> Len(issue_keys)]]
            /\ UNCHANGED bulk
       ELSE /\ bulk' = [pc |-> "running", keys |-> issue_keys, target |-> target_status,
                        index |-> 1, attempted |-> <<>>, success |-> 0, failed |-> 0,
                        errors |-> EmptyDict]
            /\ UNCHANGED last
    /\ UNCHANGED budget
    /\ Others({})

\* One round of the loop over the issues
bulk_transition_item ==
    /\ bulk.pc = "running"
    /\ bulk.index <= Len(bulk.keys)
    /\ LET done == ItemProcessed(bulk, issues)
       IN  bulk' = done.run /\ issues' = done.issues
    /\ budget' = budget - 1
    /\ UNCHANGED last
    /\ Others({"issues"})

\* The loop is over and the result is returned
bulk_transition_return ==
    /\ bulk.pc = "running"
    /\ bulk.index > Len(bulk.keys)
    /\ last' = [op |-> "bulk_transition", key |-> bulk.keys, err |-> "none",
                ret |-> [dry_run |-> FALSE, success |-> bulk.success, failed |-> bulk.failed,
                         errors |-> bulk.errors],
                target |-> bulk.target, attempted |-> bulk.attempted]
    /\ bulk' = NoBulk
    /\ UNCHANGED budget
    /\ Others({})

-----------------------------------------------------------------------------
(***************************************************************************)
(* Specifications.  Each is the client after __init__ and a run of calls.  *)
(*   Spec        the issue lifecycle: create, update, transition, delete   *)
(*   SpecStore   the calls that add issues, comments, worklogs, watchers,  *)
(*               links and sprint entries, and delete_issue                *)
(*   SpecKeyed   every call that takes an issue key                        *)
(*   SpecSearch  search_issues between calls that change what it reads     *)
(*   SpecBulk    bulk transitions between calls that create and delete     *)
(*   SpecLinks   links made, cloned, read and deleted                      *)
(*   SpecTime    worklogs logged, changed and deleted, and the time spent  *)
(*   SpecSprint  issues moved to sprints, with issues deleted              *)
(*   SpecBacklog the backlog and the sprint read while the project grows   *)
(*   SpecClone   issues cloned after updates, links and deletions          *)
(*   SpecQueue   service-desk queues read while requests are assigned      *)
(*   SpecRoles   project role actors added, removed and read               *)
(*   SpecWatch   watchers added, removed and read                          *)
(*   SpecParse   durations logged and estimated, over many time strings    *)
(*   SpecComments comments added, read, edited and deleted                 *)
(***************************************************************************)
Init == Constructed /\ budget = MaxCalls

Next ==
    \/ \E k \in FewKeys : get_issue(k)
    \/ \E f \in ArgCreateFields : create_issue(f)
    \/ create_request("1", "2", [summary |-> "Need a badge"], "def456")
    \/ \E k \in FewKeys, f \in ArgUpdateFields : update_issue(k, f)
    \/ \E k \in FewKeys : delete_issue(k)
    \/ \E k \in FewKeys, t \in ArgTransitionIds : transition_issue(k, t)

Spec == Init /\ [][Next]_vars

InitStore == Constructed /\ budget = MaxCallsStore

NextStore ==
    \/ \E f \in ArgCreateFields : create_issue(f)
    \/ \E t \in {"1", "9"} : create_request("1", t, [summary |-> "Need a badge"], "def456")
    \/ \E k \in ArgKeys : delete_issue(k)
    \/ \E k \in ArgKeys : add_comment(k, "first", None)
    \/ \E k \in ArgKeys : add_worklog(k, <<"3", "0", "m">>, NoneStr, None)
    \/ \E k \in ArgKeys : add_watcher(k, "def456")
    \/ \E a, b \in ArgKeys : create_link("Blocks", a, b)
    \/ \E k \in ArgKeys, c \in BOOLEAN : clone_issue(k, NoneStr, c)
    \/ \E s \in ArgSprintIds, k \in ArgKeys : move_issues_to_sprint(s, <<k>>)
    \/ \E s \in ArgSprintIds : move_issues_to_sprint(s, <<KeyOf(DEMO, 84), MissingKey, KeyOf(DEMO, 91)>>)

SpecStore == InitStore /\ [][NextStore]_vars

InitKeyed == Constructed /\ budget = MaxCallsKeyed

NextKeyed ==
    \/ \E k \in FewKeys : get_issue(k)
    \/ \E k \in FewKeys : update_issue(k, [summary |-> "Renamed"])
    \/ \E k \in FewKeys : delete_issue(k)
    \/ \E k \in FewKeys, a \in {"def456", NoneStr} : assign_issue(k, a)
    \/ \E k \in FewKeys : get_transitions(k)
    \/ \E k \in FewKeys, t \in {"31", "99"} : transition_issue(k, t)
    \/ \E k \in FewKeys : add_comment(k, "first", None)
    \/ \E k \in FewKeys : add_comment(k, "restricted", [type |-> "role", value |-> "Administrators"])
    \/ \E k \in FewKeys : get_comments(k, 0, DefaultMaxResults)
    \/ \E k \in FewKeys : get_comment(k, Digits(1))
    \/ \E k \in FewKeys : update_comment(k, Digits(1), "edited")
    \/ \E k \in FewKeys : delete_comment(k, Digits(1))
    \/ \E k \in FewKeys, a \in {"def456", "zzz999"} : add_watcher(k, a)
    \/ \E k \in FewKeys : get_watchers(k)
    \/ \E k \in FewKeys : remove_watcher(k, "def456")
    \/ \E k \in FewKeys, t \in {<<"1", "d", " ", "4", "h">>, <<>>} : add_worklog(k, t, NoneStr, None)
    \/ \E k \in FewKeys : get_worklogs(k, 0, DefaultMaxResults)
    \/ \E k \in FewKeys : get_worklog(k, Digits(1))
    \/ \E k \in FewKeys, t \in {NoneText, <<"2", "h">>} : update_worklog(k, Digits(1), t, NoneStr, None)
    \/ \E k \in FewKeys : delete_worklog(k, Digits(1))
    \/ \E k \in FewKeys : get_time_tracking(k)
    \/ \E k \in FewKeys, r \in {NoneText, <<"4", "h">>} : set_time_tracking(k, <<"2", "d">>, r)
    \/ \E k \in FewKeys : get_issue_links(k)
    \/ \E a, b \in FewKeys : create_link("Blocks", a, b)
    \/ \E k \in FewKeys : move_issues_to_sprint(1, <<k>>)

SpecKeyed == InitKeyed /\ [][NextKeyed]_vars

InitSearch == Constructed /\ budget = MaxCallsSearch

NextSearch ==
    \/ \E f \in ArgCreateFields : create_issue(f)
    \/ create_request("1", "1", [summary |-> "Need a badge"], "def456")
    \/ \E k \in ArgKeys : delete_issue(k)
    \/ \E k \in ArgKeys, a \in ArgAccounts \cup {NoneStr} : assign_issue(k, a)
    \/ \E k \in ArgKeys, t \in ArgTransitionIds : transition_issue(k, t)
    \/ \E q \in ArgJqls : search_issues(q, DefaultMaxResults, 0)
    \/ \E q \in ArgPagedJqls, p \in ArgPages : search_issues(q, p[1], p[2])

SpecSearch == InitSearch /\ [][NextSearch]_vars

\* The issue key lists a bulk run is started with: every list of at most
\* MaxBulkLen keys that the call budget covers
ArgKeyLists ==
    UNION {[1..n -> FewKeys] : n \in 0..(IF budget < MaxBulkLen THEN budget ELSE MaxBulkLen)}

\* Target statuses: a name, a name in another case, a part of a name, no name
ArgTargets ==
    {<<"D", "o", "n", "e">>, <<"I", "N", " ", "P", "R", "O", "G", "R", "E", "S", "S">>,
     <<"p", "r", "o", "g">>, <<"I", "n", "v", "a", "l", "i", "d">>}

InitBulk == Constructed /\ budget = MaxCallsBulk

NextBulk ==
    \/ create_issue([summary |-> "Crash on save"])
    \/ \E k \in FewKeys : delete_issue(k)
    \/ \E l \in ArgKeyLists, t \in ArgTargets, d \in BOOLEAN : bulk_transition_start(l, t, d)
    \/ bulk_transition_item
    \/ bulk_transition_return

SpecBulk == InitBulk /\ [][NextBulk]_vars

ArgLinkTypes == {"BLOCKS", "Depends"}

\* The ids create_link can have given by now, and the one it gives next
ArgLinkIds == {Digits(n) : n \in (FirstLinkCounter + 1)..(next_link_id + 1)}

InitLinks == Constructed /\ budget = MaxCallsLinks

NextLinks ==
    \/ \E t \in ArgLinkTypes, a, b \in FewKeys : create_link(t, a, b)
    \/ \E k \in FewKeys : get_issue_links(k)
    \/ \E l \in ArgLinkIds : get_link(l)
    \/ \E l \in ArgLinkIds : delete_link(l)
    \/ \E k \in FewKeys : clone_issue(k, NoneStr, TRUE)
    \/ \E k \in FewKeys : clone_issue(k, "Copy", FALSE)
    \/ \E k \in FewKeys : delete_issue(k)

SpecLinks == InitLinks /\ [][NextLinks]_vars

ArgTimes == {<<"2", "h">>, <<"3", "0", "m">>}

ArgWorklogIds == {Digits(1), Digits(2)}

DefaultMaxWorklogs == 1000

InitTime == Constructed /\ budget = MaxCallsTime

NextTime ==
    \/ \E k \in {KeyOf(DEMO, 84), MissingKey}, t \in ArgTimes : add_worklog(k, t, NoneStr, None)
    \/ \E k \in {KeyOf(DEMO, 84), MissingKey} : update_worklog(k, Digits(1), <<"1", "d">>, NoneStr, None)
    \/ \E k \in {KeyOf(DEMO, 84), MissingKey}, w \in ArgWorklogIds : delete_worklog(k, w)
    \/ \E k \in {KeyOf(DEMO, 84), MissingKey} : get_worklogs(k, 0, DefaultMaxWorklogs)
    \/ \E k \in {KeyOf(DEMO, 84), MissingKey} : get_time_tracking(k)

SpecTime == InitTime /\ [][NextTime]_vars

\* Lists of up to two keys, with repeats and with keys that are not stored
ArgSprintKeyLists == UNION {[1..n -> {KeyOf(DEMO, 84), KeyOf(DEMO, 85), MissingKey}] : n \in 0..2}

InitSprint == Constructed /\ budget = MaxCallsSprint

NextSprint ==
    \/ \E keys \in ArgSprintKeyLists : move_issues_to_sprint(1, keys)
    \/ move_issues_to_sprint(2, <<KeyOf(DEMO, 84)>>)
    \/ \E k \in {KeyOf(DEMO, 84), KeyOf(DEMO, 85)} : delete_issue(k)
    \/ \E s \in ArgSprintIds : get_sprint_issues(s, DefaultMaxResults, 0)

SpecSprint == InitSprint /\ [][NextSprint]_vars

InitBacklog == Constructed /\ budget = MaxCallsBacklog

NextBacklog ==
    \/ create_issue([project |-> [key |-> DEMO], summary |-> "Crash on save"])
    \/ move_issues_to_sprint(1, <<KeyOf(DEMO, 84)>>)
    \/ delete_issue(KeyOf(DEMO, 85))
    \/ get_sprint_issues(1, DefaultMaxResults, 0)
    \/ \E b \in {1, 2} : get_board_backlog(b, DefaultMaxResults, 0)

SpecBacklog == InitBacklog /\ [][NextBacklog]_vars

\* Updates as the commands send them: a priority by its name, a priority
\* cleared, a summary with labels
ArgCloneUpdates ==
    { [priority |-> [name |-> "Low"]],
      [priority |-> None],
      [summary |-> "Renamed", labels |-> <<"docs", "demo">>] }

InitClone == Constructed /\ budget = MaxCallsClone

NextClone ==
    \/ \E k \in FewKeys, f \in ArgCloneUpdates : update_issue(k, f)
    \/ \E k \in FewKeys : clone_issue(k, NoneStr, FALSE)
    \/ \E k \in FewKeys : clone_issue(k, "Copy", TRUE)
    \/ \E k \in FewKeys : delete_issue(k)
    \/ \E k \in FewKeys : create_link("Relates", KeyOf(DEMO, 84), k)

SpecClone == InitClone /\ [][NextClone]_vars

ArgQueueIds == {1, 2, 3, 9}

InitQueue == Constructed /\ budget = MaxCallsQueue

NextQueue ==
    \/ \E k \in {KeyOf(DEMOSD, 1), KeyOf(DEMOSD, 2)}, a \in {"abc123", "def456", NoneStr} :
           assign_issue(k, a)
    \/ create_request("1", "2", [summary |-> "Need a badge"], "def456")
    \/ delete_issue(KeyOf(DEMOSD, 1))
    \/ \E q \in ArgQueueIds : get_queue_issues(1, q, 0, DefaultMaxResults)
    \/ get_queue_issues(2, 1, 0, DefaultMaxResults)

SpecQueue == InitQueue /\ [][NextQueue]_vars

\* Role ids: Administrators, Developers, and one that is no role
ArgRoleIds == {10002, 10001, 10009}

\* The accounts added to and removed from roles: abc123 is added, never removed
ArgRoleAccounts == {"def456", "zzz999"}

InitRoles == Constructed /\ budget = MaxCallsRoles

NextRoles ==
    \/ \E p \in {DEMO, DEMOSD}, r \in ArgRoleIds : get_project_role_actors(p, r)
    \/ \E r \in ArgRoleIds, a \in ArgRoleAccounts \cup {"abc123"} :
           add_user_to_project_role(DEMO, r, a)
    \/ add_user_to_project_role(DEMOSD, 10002, "def456")
    \/ \E r \in ArgRoleIds, a \in ArgRoleAccounts : remove_user_from_project_role(DEMO, r, a)

SpecRoles == InitRoles /\ [][NextRoles]_vars

ArgWatchKeys == {KeyOf(DEMO, 84), KeyOf(DEMO, 85), MissingKey}

ArgWatchers == {"abc123", "def456"}

InitWatch == Constructed /\ budget = MaxCallsWatch

NextWatch ==
    \/ \E k \in ArgWatchKeys, a \in ArgWatchers : add_watcher(k, a)
    \/ \E k \in ArgWatchKeys, a \in ArgWatchers : remove_watcher(k, a)
    \/ \E k \in ArgWatchKeys : get_watchers(k)

SpecWatch == InitWatch /\ [][NextWatch]_vars

Units == <<"w", "d", "h", "m">>

\* How many of a unit a time string holds: 0 for a unit it does not name
ArgUnitCounts == {0, 2, 10}

\* The durations: how many weeks, days, hours and minutes
Durations == [1..4 -> ArgUnitCounts]

\* The ways a time string is written: the order of its units and what separates them
Writings ==
    { [order |-> <<1, 2, 3, 4>>, sep |-> <<" ">>],
      [order |-> <<4, 3, 2, 1>>, sep |-> <<>>] }

\* The time string of duration c in writing f, from the i-th unit of the order on
RECURSIVE DurationFrom(_, _, _)
DurationFrom(c, f, i) ==
    IF i > 4 THEN <<>>
    ELSE LET u == f.order[i]
             rest == DurationFrom(c, f, i + 1)
             part == Digits(c[u]) \o <<Units[u]>>
         IN  IF c[u] = 0 THEN rest
             ELSE IF rest = <<>> THEN part
             ELSE part \o f.sep \o rest

DurationText(c, f) == DurationFrom(c, f, 1)

ArgDurations == {DurationText(c, f) : c \in Durations, f \in Writings}

InitParse == Constructed /\ budget = MaxCallsParse

NextParse ==
    \/ \E t \in ArgDurations : add_worklog(KeyOf(DEMO, 84), t, NoneStr, None)
    \/ add_worklog(MissingKey, <<"2", "d">>, NoneStr, None)
    \/ \E t \in ArgDurations : set_time_tracking(KeyOf(DEMO, 84), t, NoneText)
    \/ \E t \in {<<>>, <<"1", "0", "h">>, <<"2", "w", " ", "1", "0", "m">>} :
           set_time_tracking(KeyOf(DEMO, 84), NoneText, t)
    \/ set_time_tracking(KeyOf(DEMO, 84), <<"2", "d">>, <<"1", "0", "h">>)

SpecParse == InitParse /\ [][NextParse]_vars

InitComments == Constructed /\ budget = MaxCallsComments

NextComments ==
    \/ \E k \in {KeyOf(DEMO, 84), MissingKey} : add_comment(k, "first", None)
    \/ \E k \in {KeyOf(DEMO, 84), MissingKey} : add_request_comment(k, "reply", TRUE)
    \/ \E c \in {Digits(1), Digits(2)} : delete_comment(KeyOf(DEMO, 84), c)
    \/ get_comment(KeyOf(DEMO, 84), Digits(2))
    \/ update_comment(KeyOf(DEMO, 84), Digits(2), "edited")

SpecComments == InitComments /\ [][NextComments]_vars

-----------------------------------------------------------------------------
(***************************************************************************)
(* Properties.                                                             *)
(***************************************************************************)
\* The calls that take an issue key and look it up before anything else
KeyedOps ==
    {"get_issue", "update_issue", "delete_issue", "assign_issue", "get_transitions",
     "transition_issue", "add_comment", "get_comments", "update_comment", "delete_comment",
     "add_watcher", "remove_watcher", "add_worklog", "get_worklogs", "update_worklog",
     "delete_worklog", "get_time_tracking", "set_time_tracking", "get_issue_links"}

\* C1: a call of a keyed operation with a key the store does not hold raises
\* NotFoundError and leaves issues, comments, worklogs, watchers, links and
\* sprint contents (and both id counters) as they were
MissingKeyRaisesNotFound ==
    [][(last'.op \in KeyedOps /\ budget' < budget /\ ~HasIssue(last'.key))
         => (last'.err = "NotFoundError" /\ UNCHANGED data)]_vars

\* C1 happens: add_comment was called with the key of a deleted issue and raised
\* NotFoundError
MissingKeyCallMade ==
    /\ last.op = "add_comment"
    /\ last.err = "NotFoundError"
    /\ last.key \in deleted

\* The key of the issue at the other end of a link entry
LinkedKey(link) ==
    IF "outwardIssue" \in DOMAIN link THEN link.outwardIssue ELSE link.inwardIssue

\* C2: every stored comment, worklog and watcher belongs to a stored issue, and
\* every link get_issue_links returns for a stored issue points to a stored issue
StoreSelfConsistent ==
    /\ \A k \in DOMAIN comments : comments[k] # <<>> => HasIssue(k)
    /\ \A k \in DOMAIN worklogs : worklogs[k] # <<>> => HasIssue(k)
    /\ \A k \in DOMAIN watchers : watchers[k] # <<>> => HasIssue(k)
    /\ \A k \in IssueKeys :
           LET links == Get(issue_links, k, <<>>)
           IN  \A i \in 1..Len(links) : HasIssue(LinkedKey(links[i]))

\* C3: the key create_issue returns is new and its issue is stored with status
\* "To Do"; a stored key stays stored through every call but delete_issue of that
\* key; a deleted key is never stored again; and get_issue returns the stored
\* issue for a stored key and raises NotFoundError for any other
IssueLifecycle ==
    [][/\ (last'.op = "create_issue" /\ budget' < budget)
            => /\ last'.err = "none"
               /\ last'.key \notin IssueKeys \cup deleted
               /\ \E i \in 1..Len(issues') :
                      issues'[i].key = last'.key /\ issues'[i].fields.status.name = "To Do"
       /\ \A k \in IssueKeys :
              HasIssue(k)' \/ (last'.op = "delete_issue" /\ last'.key = k /\ k \in deleted')
       /\ \A k \in deleted : k \in deleted' /\ ~HasIssue(k)'
       /\ (last'.op = "get_issue" /\ budget' < budget)
            => IF HasIssue(last'.key)
               THEN last'.err = "none" /\ last'.ret = Issue(last'.key)
               ELSE last'.err = "NotFoundError"]_vars

\* C3 happens: get_issue was called with a key that create_issue had returned and
\* delete_issue had deleted since, and raised NotFoundError
DeletedIssueAsked ==
    /\ last.op = "get_issue"
    /\ last.err = "NotFoundError"
    /\ last.key \in deleted \cap CreatedKeys

\* The status the documented table gives for a transition id
TargetStatus == [x \in {"11", "21", "31"} |->
                    IF x = "11" THEN "To Do" ELSE IF x = "21" THEN "In Progress" ELSE "Done"]

\* C4: transition_issue on a stored key raises nothing; with an id of the table
\* it sets the status of that issue to the table's target, with any other id it
\* leaves the issue as it was; the issue's other fields, every other issue and
\* all other data stay as they were
TransitionIsTableLookup ==
    [][(last'.op = "transition_issue" /\ budget' < budget /\ HasIssue(last'.key))
         => /\ last'.err = "none"
            /\ Len(issues') = Len(issues)
            /\ \A i \in 1..Len(issues) :
                   IF issues[i].key = last'.key
                   THEN /\ issues'[i].key = issues[i].key
                        /\ issues'[i].id = issues[i].id
                        /\ DOMAIN issues'[i].fields = DOMAIN issues[i].fields
                        /\ \A f \in DOMAIN issues[i].fields \ {"status"} :
                               issues'[i].fields[f] = issues[i].fields[f]
                        /\ IF last'.transition_id \in DOMAIN TargetStatus
                           THEN issues'[i].fields.status.name = TargetStatus[last'.transition_id]
                           ELSE issues'[i].fields.status = issues[i].fields.status
                   ELSE issues'[i] = issues[i]
            /\ UNCHANGED <<next_issue_id, comments, worklogs, project_role_actors,
                           sprint_issues, watchers, issue_links, next_link_id>>]_vars

\* C4 happens: an issue whose status an earlier call had changed was transitioned
\* with an id the table does not list
UnknownTransitionTried ==
    /\ last.op = "transition_issue"
    /\ last.err = "none"
    /\ last.transition_id = "99"
    /\ Issue(last.key).fields.status.name = "Done"
    /\ last.key \in CreatedKeys

\* A search that returned the whole of its filtered list in one page
WholeListSearched ==
    last.op = "search_issues" /\ last.start_at = 0 /\ last.max_results >= Len(issues)

StatusName(i) == i.fields.status.name

\* The stored issues with status name s, in the order of the store
WithStatus(s) == SelectSeq(issues, LAMBDA i : StatusName(i) = s)

\* The documented status clauses and the status each names
StatusClauses ==
    { <<JqlStatusToDo, "To Do">>, <<JqlStatusInProgress, "In Progress">>, <<JqlStatusDone, "Done">> }

\* C6: a search whose query has the clause status = S returns only issues with
\* status S, and when that clause is the whole query it returns all stored issues
\* with status S and counts them in total
StatusFilterExact ==
    last.op = "search_issues" =>
        \A c \in StatusClauses :
            /\ Contains(last.key, c[1]) =>
                   \A j \in 1..Len(last.ret.issues) : StatusName(last.ret.issues[j]) = c[2]
            /\ (last.key = c[1] /\ WholeListSearched) =>
                   /\ last.ret.issues = WithStatus(c[2])
                   /\ last.ret.total = Len(WithStatus(c[2]))

AssigneeId(i) ==
    IF HasAssignee(i) THEN Get(i.fields.assignee, "accountId", NoneStr) ELSE NoneStr

\* The documented assignee clauses and the account each names
AssigneeClauses ==
    { <<JqlAssigneeJason, "abc123">>, <<JqlAssigneeJane, "def456">>,
      <<JqlAssigneeCurrentUser, "abc123">> }

\* C7: a search whose query has an assignee clause naming one user returns only
\* issues assigned to that user, whatever else the query holds
AssigneeFilterExact ==
    last.op = "search_issues" =>
        \A c \in AssigneeClauses :
            Contains(last.key, c[1]) =>
                \A j \in 1..Len(last.ret.issues) : AssigneeId(last.ret.issues[j]) = c[2]

\* The key is <project_key>-<n> for a number an issue can have by now
NumberedKey(k, project_key) == \E n \in 1..next_issue_id : k = KeyOf(project_key, n)

ResultKeys(response) == {response.issues[j].key : j \in 1..Len(response.issues)}

Min(a, b) == IF a < b THEN a ELSE b

\* C9: the page is the filtered list from index start_at on, cut at max_results
\* issues; total is the length of the filtered list; isLast holds exactly when the
\* page reaches the end of the filtered list; nextPageToken is None exactly when
\* isLast holds
PageConsistent ==
    (last.op = "search_issues" /\ last.start_at >= 0 /\ last.max_results >= 0) =>
        LET full == Filtered(last.key)
            page == last.ret.issues
            rest == IF Len(full) > last.start_at THEN Len(full) - last.start_at ELSE 0
        IN  /\ Len(page) = Min(last.max_results, rest)
            /\ \A j \in 1..Len(page) : page[j] = full[last.start_at + j]
            /\ last.ret.total = Len(full)
            /\ last.ret.isLast <=> (last.start_at + Len(page) >= Len(full))
            /\ (last.ret.nextPageToken = NoneText) <=> last.ret.isLast

\* C9 happens: a page of two issues from index 1 was returned with more issues
\* after it, from a list that a created issue had made longer
MiddlePageReturned ==
    /\ last.op = "search_issues"
    /\ last.start_at = 1
    /\ Len(last.ret.issues) = 2
    /\ ~last.ret.isLast
    /\ last.ret.total > 3
    /\ CreatedKeys \cap ResultKeys(SearchIssues(last.key, Len(issues), 0)) # {}

\* The issue at position i of a bulk run cannot be transitioned: its key is not
\* stored, or no transition leads to the target
ItemFails(keys, target, i) ==
    ~HasIssue(keys[i]) \/ \A j \in 1..Len(TRANSITIONS) : ~PartialTransition(TRANSITIONS[j], target)

\* C10: while a bulk transition runs, the issues attempted so far are the first
\* ones of the list in order and each is counted once as success or failure; the
\* result it returns has attempted all N issues in order, with success + failed
\* = N, failed the number of issues that could not be transitioned, and the
\* errors map holding exactly their keys
BulkContinuesPastFailures ==
    /\ bulk.pc = "running" =>
          /\ bulk.index <= Len(bulk.keys) + 1
          /\ bulk.attempted = SubSeq(bulk.keys, 1, bulk.index - 1)
          /\ bulk.success + bulk.failed = bulk.index - 1
    /\ (last.op = "bulk_transition" /\ ~last.ret.dry_run) =>
          LET keys == last.key
              failing == {i \in 1..Len(keys) : ItemFails(keys, last.target, i)}
          IN  /\ last.attempted = keys
              /\ last.ret.success + last.ret.failed = Len(keys)
              /\ last.ret.failed = Cardinality(failing)
              /\ DOMAIN last.ret.errors = {keys[i] : i \in failing}

\* C10 happens: a run over three issues returned with the first and the last
\* transitioned and the one between them failed
MiddleItemFailed ==
    /\ last.op = "bulk_transition"
    /\ ~last.ret.dry_run
    /\ Len(last.key) = 3
    /\ last.ret.success = 2
    /\ last.ret.failed = 1
    /\ ~HasIssue(last.key[2])
    /\ Issue(last.key[3]).fields.status.name = "Done"

\* C11: update_issue on a stored key raises nothing; afterwards the issue holds
\* the given value for every field named in fields and its previous value for
\* every other field; every other issue and all comments, worklogs, watchers,
\* links and sprint entries are as they were; with fields None or empty nothing
\* changes
UpdateOverwritesFields ==
    [][(last'.op = "update_issue" /\ budget' < budget /\ HasIssue(last'.key))
         => LET given == last'.fields
                named == IF given = None THEN {} ELSE DOMAIN given
            IN  /\ last'.err = "none"
                /\ Len(issues') = Len(issues)
                /\ \A i \in 1..Len(issues) :
                       IF issues[i].key = last'.key
                       THEN /\ issues'[i].key = issues[i].key
                            /\ issues'[i].id = issues[i].id
                            /\ DOMAIN issues'[i].fields = DOMAIN issues[i].fields \cup named
                            /\ \A x \in named : issues'[i].fields[x] = given[x]
                            /\ \A x \in DOMAIN issues[i].fields \ named :
                                   issues'[i].fields[x] = issues[i].fields[x]
                       ELSE issues'[i] = issues[i]
                /\ named = {} => issues' = issues
                /\ UNCHANGED <<next_issue_id, comments, worklogs, project_role_actors,
                               sprint_issues, watchers, issue_links, next_link_id>>]_vars

\* C11 happens: a created issue was given a new status and new labels and kept its
\* summary
SomeFieldsUpdated ==
    /\ last.op = "update_issue"
    /\ last.err = "none"
    /\ last.fields # None
    /\ DOMAIN last.fields = {"status", "labels"}
    /\ last.key \in CreatedKeys
    /\ Issue(last.key).fields.status.name = "Done"
    /\ Issue(last.key).fields.summary = "Crash on save"

\* The lower-cased names of the link types the client knows
KnownLinkNames == {"blocks", "cloners", "duplicate", "relates"}

\* C12: create_link raises NotFoundError when the inward or the outward key is not
\* stored, else ValidationError when the link type is not a known name in any
\* case, else nothing; a call that raises leaves the links, the link-id counter
\* and everything else as they were; a call that succeeds uses the id after the
\* counter
LinkValidatedBeforeStored ==
    [][(last'.op = "create_link" /\ budget' < budget)
         => LET both == HasIssue(last'.inward_key) /\ HasIssue(last'.outward_key)
                known == LowerName(last'.link_type) \in KnownLinkNames
            IN  /\ ~both => last'.err = "NotFoundError"
                /\ (both /\ ~known) => last'.err = "ValidationError"
                /\ (both /\ known) =>
                       /\ last'.err = "none"
                       /\ next_link_id' = next_link_id + 1
                       /\ \E i \in 1..Len(issue_links'[last'.inward_key]) :
                              issue_links'[last'.inward_key][i].id = Digits(next_link_id + 1)
                /\ last'.err # "none" => UNCHANGED data]_vars

\* C12 happens: after one link was made, a create_link between two stored issues
\* failed on its link type and the counter still stands at the first id
LinkRefusedAfterLinkMade ==
    /\ last.op = "create_link"
    /\ last.err = "ValidationError"
    /\ HasIssue(last.inward_key) /\ HasIssue(last.outward_key)
    /\ budget = MaxCallsLinks - 2
    /\ next_link_id = FirstLinkCounter + 1

\* The seconds of the worklogs in list, added up
RECURSIVE SecondsLogged(_)
SecondsLogged(list) ==
    IF list = <<>> THEN 0 ELSE Head(list).timeSpentSeconds + SecondsLogged(Tail(list))

LinkPlaces(links) == UNION {{<<k, i>> : i \in 1..Len(links[k])} : k \in DOMAIN links}

\* The places of the entries that carry link_id
PlacesOfLink(links, link_id) == {p \in LinkPlaces(links) : links[p[1]][p[2]].id = link_id}

\* The ids create_link has given so far
GivenLinkIds == {Digits(n) : n \in (FirstLinkCounter + 1)..next_link_id}

\* Every link id in the store was given by create_link and sits in exactly two entries
LinksPaired ==
    \A p \in LinkPlaces(issue_links) :
        LET link_id == issue_links[p[1]][p[2]].id
        IN  /\ link_id \in GivenLinkIds
            /\ Cardinality(PlacesOfLink(issue_links, link_id)) = 2

\* A successful create_link(T, A, B) appends an entry with the next id that names
\* B as outwardIssue to A's links and one with the same id that names A as
\* inwardIssue to B's links, and leaves the other lists alone
LinkAddedToBothEnds ==
    (last'.op = "create_link" /\ budget' < budget /\ last'.err = "none")
        => LET A == last'.inward_key
               B == last'.outward_key
               link_id == Digits(next_link_id + 1)
               wasA == Get(issue_links, A, <<>>)
               wasB == Get(issue_links, B, <<>>)
               isA == issue_links'[A]
               isB == issue_links'[B]
               outward == isA[Len(wasA) + 1]
               inward == isB[Len(isB)]
           IN  /\ PlacesOfLink(issue_links, link_id) = {}
               /\ Len(isA) = Len(wasA) + (IF A = B THEN 2 ELSE 1)
               /\ Len(isB) = Len(wasB) + (IF A = B THEN 2 ELSE 1)
               /\ SubSeq(isA, 1, Len(wasA)) = wasA
               /\ SubSeq(isB, 1, Len(wasB)) = wasB
               /\ outward.id = link_id /\ outward.outwardIssue = B
               /\ inward.id = link_id /\ inward.inwardIssue = A
               /\ LowerName(outward.type.name) = LowerName(last'.link_type)
               /\ inward.type = outward.type
               /\ \A k \in DOMAIN issue_links \ {A, B} : issue_links'[k] = issue_links[k]
               /\ DOMAIN issue_links' = DOMAIN issue_links \cup {A, B}

\* A successful delete_link(id) removes the two entries with that id and leaves
\* every other entry, in its order, and everything else
LinkDeletedFromBothEnds ==
    (last'.op = "delete_link" /\ budget' < budget /\ last'.err = "none")
        => /\ Cardinality(PlacesOfLink(issue_links, last'.key)) = 2
           /\ DOMAIN issue_links' = DOMAIN issue_links
           /\ \A k \in DOMAIN issue_links :
                  issue_links'[k] = SelectSeq(issue_links[k], LAMBDA l : l.id # last'.key)
           /\ UNCHANGED <<issues, next_issue_id, comments, worklogs, project_role_actors,
                          sprint_issues, watchers, next_link_id, deleted>>

\* get_link and delete_link of an id that no entry carries raise NotFoundError
\* and change nothing
AbsentLinkNotFound ==
    (last'.op \in {"get_link", "delete_link"} /\ budget' < budget
         /\ PlacesOfLink(issue_links, last'.key) = {})
        => last'.err = "NotFoundError" /\ UNCHANGED data

\* C14: every link id in the store sits in exactly two entries; create_link puts
\* one entry with a fresh id on the inward issue (naming the outward issue) and
\* one on the outward issue (naming the inward issue); delete_link takes both
\* away and nothing else, and from then on get_link and delete_link of that id
\* raise NotFoundError
LinksSymmetric ==
    /\ []LinksPaired
    /\ [][LinkAddedToBothEnds /\ LinkDeletedFromBothEnds /\ AbsentLinkNotFound]_vars

\* C14 happens: the first link was made and deleted, and asking for it again
\* (get_link or a second delete_link) raised NotFoundError
DeletedLinkAskedAgain ==
    /\ last.op \in {"get_link", "delete_link"}
    /\ last.key = Digits(FirstLinkCounter + 1)
    /\ last.err = "NotFoundError"
    /\ next_link_id = FirstLinkCounter + 1
    /\ LinkPlaces(issue_links) = {}
    /\ DOMAIN issue_links # {}

\* How often key is listed in the sequence list
Listed(key, list) == Cardinality({i \in 1..Len(list) : list[i] = key})

\* No key is listed twice in a sprint, and no key is listed in two sprints
SprintsDisjoint ==
    \A s \in DOMAIN sprint_issues :
        \A i \in 1..Len(sprint_issues[s]) :
            /\ Listed(sprint_issues[s][i], sprint_issues[s]) = 1
            /\ \A t \in DOMAIN sprint_issues \ {s} : ~InSeq(sprint_issues[s][i], sprint_issues[t])

\* A move_issues_to_sprint(S, keys) that returns leaves every key of keys listed
\* once in sprint S and in no other sprint
MovedKeysInTargetOnly ==
    (last'.op = "move_issues_to_sprint" /\ budget' < budget /\ last'.err = "none")
        => \A i \in 1..Len(last'.issue_keys) :
               /\ last'.sprint_id \in DOMAIN sprint_issues'
               /\ Listed(last'.issue_keys[i], sprint_issues'[last'.sprint_id]) = 1
               /\ \A t \in DOMAIN sprint_issues' \ {last'.sprint_id} :
                      ~InSeq(last'.issue_keys[i], sprint_issues'[t])

\* C15: after a successful move_issues_to_sprint(S, keys) every key of keys is
\* listed in sprint S exactly once and in no other sprint, and in every state no
\* key is listed in two sprints or twice in one
SprintMembershipUnique == []SprintsDisjoint /\ [][MovedKeysInTargetOnly]_vars

\* C15 happens: a list that names one key twice, a key the sprint already listed
\* among them, was moved to sprint 1
RepeatedKeyMoved ==
    /\ last.op = "move_issues_to_sprint"
    /\ last.err = "none"
    /\ last.sprint_id = 1
    /\ last.issue_keys = <<KeyOf(DEMO, 85), KeyOf(DEMO, 85)>>
    /\ InSeq(KeyOf(DEMO, 84), sprint_issues[1])
    /\ sprint_issues[1][Len(sprint_issues[1])] = KeyOf(DEMO, 85)

\* Some active sprint lists key
InActiveSprint(key) ==
    \E s \in 1..Len(sprints) :
        /\ sprints[s].state = "active"
        /\ InSeq(key, Get(sprint_issues, sprints[s].id, <<>>))

\* The keys of the issues the last call returned
ReturnedKeys == {last.ret.issues[i].key : i \in 1..Len(last.ret.issues)}

\* get_board_backlog(1) has returned
BacklogAsked == last.op = "get_board_backlog" /\ last.err = "none"

\* get_sprint_issues of an active sprint has returned
ActiveSprintAsked ==
    /\ last.op = "get_sprint_issues"
    /\ \E s \in 1..Len(sprints) : sprints[s].id = last.sprint_id /\ sprints[s].state = "active"

\* What the last call returned is what the claim says of it: the backlog is the
\* stored DEMO issues that no active sprint lists, the sprint's issues are the
\* stored issues it lists, so a stored DEMO issue is in one of the two and an
\* issue that was deleted in neither
ReturnedAsListed ==
    /\ BacklogAsked =>
           \A k \in IssueKeys \cup deleted :
               k \in ReturnedKeys <=> (/\ k \in IssueKeys
                                       /\ StartsWith(k, DEMO \o Dash)
                                       /\ ~InActiveSprint(k))
    /\ ActiveSprintAsked =>
           \A k \in IssueKeys \cup deleted :
               k \in ReturnedKeys <=> (/\ k \in IssueKeys
                                       /\ InSeq(k, Get(sprint_issues, last.sprint_id, <<>>)))

\* C16: as stated, in every state each stored DEMO issue is returned by exactly
\* one of get_board_backlog(1) and get_sprint_issues of the active sprint, and a
\* deleted issue by neither
BacklogComplementsSprint == ReturnedAsListed

\* C16: amended, for the calls whose result fits in the page they ask for (max_results,
\* 50 unless given): each stored DEMO issue is returned by exactly one of
\* get_board_backlog(1) and get_sprint_issues of the active sprint, and a deleted
\* issue by neither
BacklogComplementsSprintInPage ==
    ((BacklogAsked \/ ActiveSprintAsked) /\ last.ret.total <= last.ret.maxResults)
        => ReturnedAsListed

\* C16 happens: the backlog is read after an issue was created, DEMO-84 was moved
\* to the sprint and the sprint's DEMO-85 was deleted
BacklogReadAfterChanges ==
    /\ BacklogAsked
    /\ KeyOf(DEMO, 85) \in deleted
    /\ InActiveSprint(KeyOf(DEMO, 84))
    /\ KeyOf(DEMO, FirstIssueCounter + 1) \in ReturnedKeys
    /\ KeyOf(DEMO, 84) \notin ReturnedKeys

\* The Cloners link of a clone step: one new id, on K's list naming the clone as
\* outwardIssue and on the clone's list naming K as inwardIssue
ClonersLinkRecorded(K, clone_key) ==
    \E i \in 1..Len(Get(issue_links', K, <<>>)), j \in 1..Len(Get(issue_links', clone_key, <<>>)) :
        LET outward == issue_links'[K][i]
            inward == issue_links'[clone_key][j]
        IN  /\ outward.type.name = "Cloners"
            /\ "outwardIssue" \in DOMAIN outward /\ outward.outwardIssue = clone_key
            /\ "inwardIssue" \in DOMAIN inward /\ inward.inwardIssue = K
            /\ inward.id = outward.id
            /\ inward.type = outward.type
            /\ PlacesOfLink(issue_links, outward.id) = {}

\* What a clone_issue(K, summary) step does: for a stored K one issue is appended
\* to the store under a key that is not in it, with K's project key, issue type
\* name, summary (the given one if one is given), description, priority (the
\* whole value if whole_priority, else its name, Medium where K has none) and
\* labels, the stored issues stay as they are and a Cloners link joins K and the
\* clone; for a K that is not stored NotFoundError is raised and nothing changes
CloneStep(whole_priority) ==
    (last'.op = "clone_issue" /\ budget' < budget)
        => IF ~HasIssue(last'.key)
           THEN last'.err = "NotFoundError" /\ UNCHANGED data
           ELSE LET K == Issue(last'.key).fields
                    clone == issues'[Len(issues')]
                IN  /\ last'.err = "none"
                    /\ Len(issues') = Len(issues) + 1
                    /\ SubSeq(issues', 1, Len(issues)) = issues
                    /\ clone.key \notin IssueKeys
                    /\ clone.key = last'.ret.key
                    /\ clone.fields.project.key = K.project.key
                    /\ clone.fields.issuetype.name = K.issuetype.name
                    /\ clone.fields.summary = (IF last'.summary # NoneStr THEN last'.summary
                                               ELSE K.summary)
                    /\ clone.fields.description = K.description
                    /\ IF whole_priority THEN clone.fields.priority = K.priority
                       ELSE clone.fields.priority.name =
                                (IF K.priority = None THEN "Medium" ELSE K.priority.name)
                    /\ clone.fields.labels = K.labels
                    /\ ClonersLinkRecorded(last'.key, clone.key)

DemoSdKeys == {k \in IssueKeys : StartsWith(k, DEMOSD \o Dash)}

\* The keys of the issues the last get_queue_issues returned
QueueKeys == {last.ret.values[i].key : i \in 1..Len(last.ret.values)}

\* C18: get_queue_issues of service desk 1 returns without error, for the queue
\* "Assigned to me" (2) exactly the DEMOSD issues assigned to abc123, for
\* "Unassigned" (3) exactly the DEMOSD issues without assignee, for "All open"
\* (1) all DEMOSD issues, in every state, the constructed one included
QueueFiltersByAssignee ==
    (last.op = "get_queue_issues" /\ last.service_desk_id = 1 /\ last.queue_id \in {1, 2, 3})
        => /\ last.err = "none"
           /\ QueueKeys =
                  {k \in DemoSdKeys :
                       LET assignee == Issue(k).fields.assignee
                       IN  CASE last.queue_id = 1 -> TRUE
                             [] last.queue_id = 2 -> assignee # None /\ assignee.accountId = "abc123"
                             [] last.queue_id = 3 -> assignee = None}

\* The account ids of the actors the last call returned
ReturnedActors == {last.ret.actors[i].actorUser.accountId : i \in 1..Len(last.ret.actors)}

\* C19: whenever the actors of the Administrators role (10002) of a project are
\* returned, abc123 is among them; no call has removed abc123 from a role, other
\* accounts have been added to and removed from it
AdministratorsKeepCurrentUser ==
    (last.op \in {"get_project_role_actors", "add_user_to_project_role"}
         /\ last.role_id = 10002 /\ last.err = "none")
        => "abc123" \in ReturnedActors

\* No watcher list holds an account id twice
WatchersUnique ==
    \A k \in DOMAIN watchers : \A i \in 1..Len(watchers[k]) : Listed(watchers[k][i], watchers[k]) = 1

\* The watcher list of issue key k in the dict w
WatchersOf(w, k) == Get(w, k, <<>>)

\* An add_watcher(K, a) that returns leaves a watching K and every other account
\* and issue as it was; on an account that watches K already it changes nothing
WatcherAdded ==
    (last'.op = "add_watcher" /\ budget' < budget /\ last'.err = "none")
        => LET K == last'.key
               a == last'.account_id
           IN  /\ InSeq(a, WatchersOf(watchers', K))
               /\ SelectSeq(WatchersOf(watchers', K), LAMBDA x : x # a)
                      = SelectSeq(WatchersOf(watchers, K), LAMBDA x : x # a)
               /\ \A k \in (DOMAIN watchers \cup DOMAIN watchers') \ {K} :
                      WatchersOf(watchers', k) = WatchersOf(watchers, k)
               /\ InSeq(a, WatchersOf(watchers, K)) => UNCHANGED data
               /\ UNCHANGED <<issues, next_issue_id, comments, worklogs, project_role_actors,
                              sprint_issues, issue_links, next_link_id, deleted>>

\* A remove_watcher(K, a) leaves a not watching K and every other account and
\* issue as it was; on an account that does not watch K it changes nothing
WatcherRemoved ==
    (last'.op = "remove_watcher" /\ budget' < budget)
        => LET K == last'.key
               a == IF last'.err = "none" THEN last'.account_id ELSE NoneStr
           IN  /\ ~InSeq(a, WatchersOf(watchers, K)) => UNCHANGED data
               /\ last'.err = "none" =>
                      /\ ~InSeq(a, WatchersOf(watchers', K))
                      /\ WatchersOf(watchers', K)
                             = SelectSeq(WatchersOf(watchers, K), LAMBDA x : x # a)
                      /\ \A k \in (DOMAIN watchers \cup DOMAIN watchers') \ {K} :
                             WatchersOf(watchers', k) = WatchersOf(watchers, k)
                      /\ UNCHANGED <<issues, next_issue_id, comments, worklogs,
                                     project_role_actors, sprint_issues, issue_links,
                                     next_link_id, deleted>>

\* C20: a watcher list holds each account id at most once in every state,
\* add_watcher of an account that watches already changes nothing, remove_watcher
\* of an account that does not watch changes nothing, and after add_watcher(K, a)
\* and remove_watcher(K, a) the account a does not watch K while the watchers of
\* the other issues are what they were
WatchersAreSets == []WatchersUnique /\ [][WatcherAdded /\ WatcherRemoved]_vars

\* C20 happens: with another issue watched, an account was added to an issue and
\* removed from it again
WatcherAddedAndRemoved ==
    /\ last.op = "remove_watcher"
    /\ last.err = "none"
    /\ last.key \in DOMAIN watchers
    /\ watchers[last.key] = <<>>
    /\ \E k \in DOMAIN watchers \ {last.key} : watchers[k] # <<>>
    /\ budget = 0

\* The seconds of a duration in working time: a week is 5 days, a day is 8 hours
WorkingSeconds(c) == c[1] * 144000 + c[2] * 28800 + c[3] * 3600 + c[4] * 60

\* Every time string with the seconds the claim gives it
WorkingTimeTable == {<<DurationText(c, f), WorkingSeconds(c)>> : c \in Durations, f \in Writings}

\* The seconds stored with the time string text are what the table says
StoredAsTabled(text, seconds) == \A p \in WorkingTimeTable : p[1] = text => p[2] = seconds

CommentIdsUnique ==
    \A k \in DOMAIN comments :
        \A i, j \in 1..Len(comments[k]) : comments[k][i].id = comments[k][j].id => i = j

=============================================================================
